---- MODULE Spec2Model ----
(***************************************************************************)
(* Model of skill-builder's storage core: the object store interface, the  *)
(* skills index, the Repository orchestrator (upload / download / delete)  *)
(* with its optional local cache, and the multi-source install resolver.   *)
(*                                                                         *)
(* Strings that the code concatenates or takes prefixes of (names,         *)
(* versions, object keys) are sequences of one-character strings.          *)
(***************************************************************************)
EXTENDS Integers, Sequences, FiniteSets, TLC

(***************************************************************************)
(* Bounds                                                                  *)
(***************************************************************************)
\* number of Repository operations started in one behaviour
MaxOps == 4
\* number of operations the two concurrent writers start together
MaxWriterOps == 3

(***************************************************************************)
(* Strings                                                                 *)
(***************************************************************************)
SLASH == <<"/">>
S_SKILLS == <<"s","k","i","l","l","s","/">>
S_SOURCE == <<"s","o","u","r","c","e","/">>
S_DOT_SKILL == <<".","s","k","i","l","l">>
S_CHANGELOG == <<"C","H","A","N","G","E","L","O","G",".","m","d">>
S_SOURCE_ZIP == <<"-","s","o","u","r","c","e",".","z","i","p">>

\* index.rs: const INDEX_KEY
INDEX_KEY == <<"s","k","i","l","l","s","_","i","n","d","e","x",".","j","s","o","n">>

\* str::starts_with
StartsWith(s, prefix) ==
    /\ Len(prefix) <= Len(s)
    /\ SubSeq(s, 1, Len(prefix)) = prefix

\* Inputs of the operations
Names == { <<"a">>, <<"a","b">> }
Versions == { <<"1",".","0",".","0">>, <<"2",".","0",".","0">> }
Payloads == { "p1", "p2" }
Descriptions == { "d1", "d2" }
Urls == { "u1" }
NoVersion == << >>          \* Option<&str> = None
VersionOpts == Versions \cup {NoVersion}

\* format!("skills/{name}/{version}/{name}.skill")
SkillKey(n, v) == S_SKILLS \o n \o SLASH \o v \o SLASH \o n \o S_DOT_SKILL
\* format!("skills/{name}/{version}/CHANGELOG.md")
ChangelogKey(n, v) == S_SKILLS \o n \o SLASH \o v \o SLASH \o S_CHANGELOG
\* format!("source/{name}/{version}/{name}-source.zip")
SourceKey(n, v) == S_SOURCE \o n \o SLASH \o v \o SLASH \o n \o S_SOURCE_ZIP
\* format!("skills/{name}/")
SkillPrefix(n) == S_SKILLS \o n \o SLASH

(***************************************************************************)
(* Object contents.  An object is either an opaque blob or the text of a   *)
(* JSON index document; only the latter parses as a SkillsIndex.           *)
(***************************************************************************)
Blob(t) == [kind |-> "blob", text |-> t, skills |-> << >>]
JsonDoc(sk) == [kind |-> "json", text |-> "", skills |-> sk]

CHANGELOG_DATA == Blob("changelog")
ARCHIVE_DATA == Blob("archive")

(***************************************************************************)
(* Object store: a map from stored keys to contents                        *)
(***************************************************************************)
EmptyStore == << >>

StorePut(s, key, data) ==
    [k \in (DOMAIN s) \cup {key} |-> IF k = key THEN data ELSE s[k]]

StoreDelete(s, key) ==
    [k \in (DOMAIN s) \ {key} |-> s[k]]

StoreExists(s, key) == key \in DOMAIN s

StoreList(s, prefix) == {k \in DOMAIN s : StartsWith(k, prefix)}

(***************************************************************************)
(* LocalStorageClient: keys are paths below a root directory.  A path is   *)
(* the key itself; ROOT is the root directory.  The state of the backend   *)
(* is the directory tree: the files with their contents and the            *)
(* directories, the root among them.                                       *)
(***************************************************************************)
ROOT == << >>

\* the path a key or prefix resolves to: trailing separators are dropped
RECURSIVE TrimSlash(_)
TrimSlash(p) ==
    IF p # << >> /\ p[Len(p)] = "/" THEN TrimSlash(SubSeq(p, 1, Len(p) - 1)) ELSE p

LastSlash(p) ==
    IF \E i \in 1..Len(p) : p[i] = "/"
    THEN CHOOSE i \in 1..Len(p) : p[i] = "/" /\ \A j \in (i+1)..Len(p) : p[j] # "/"
    ELSE 0

\* Path::parent and Path::file_name, relative to the root
PathParent(p) == SubSeq(p, 1, LastSlash(p) - 1)
PathFileName(p) == SubSeq(p, LastSlash(p) + 1, Len(p))

RECURSIVE PathAncestors(_)
\* the directories a path lies in, the root included
PathAncestors(p) ==
    IF p = ROOT THEN {} ELSE {PathParent(p)} \cup PathAncestors(PathParent(p))

\* LocalStorageClient::new: create_dir_all(root)
EmptyFs == [files |-> << >>, dirs |-> {ROOT}]

\* the tree that holds the files of s and the directories they lie in
TreeOf(s) == [files |-> s, dirs |-> {ROOT} \cup UNION {PathAncestors(k) : k \in DOMAIN s}]

\* fs::create_dir_all(d) succeeds unless d or a directory it lies in is a file
CreateDirAllOk(fs, d) == \A x \in {d} \cup PathAncestors(d) : x \notin DOMAIN fs.files

\* LocalStorageClient::put_object: create_dir_all(parent)?, then fs::write,
\* which fails on a path that is a directory
LocalPutObject(fs, key, data) ==
    IF ~CreateDirAllOk(fs, PathParent(key))
    THEN [ok |-> FALSE, fs |-> fs]
    ELSE LET made == fs.dirs \cup {PathParent(key)} \cup PathAncestors(PathParent(key))
         IN IF key \in made
            THEN [ok |-> FALSE, fs |-> [files |-> fs.files, dirs |-> made]]
            ELSE [ok |-> TRUE,
                  fs |-> [files |-> [k \in (DOMAIN fs.files) \cup {key} |->
                                        IF k = key THEN data ELSE fs.files[k]],
                          dirs |-> made]]

\* LocalStorageClient::get_object: fs::read
LocalGetObject(fs, key) ==
    IF key \in DOMAIN fs.files THEN [ok |-> TRUE, data |-> fs.files[key]]
    ELSE [ok |-> FALSE, data |-> [kind |-> "blob", text |-> "", skills |-> << >>]]

\* LocalStorageClient::object_exists: Path::is_file
LocalObjectExists(fs, key) == key \in DOMAIN fs.files

\* fs::read_dir(d).next().is_none()
DirEmpty(files, dirs, d) ==
    \A p \in ((DOMAIN files) \cup dirs) \ {ROOT} : PathParent(p) # d

\* the clean-up loop of delete_object leaving after its first iteration
CleanupParents_one_level(files, dirs, d) ==
    IF d = ROOT THEN dirs
    ELSE IF d \in dirs /\ DirEmpty(files, dirs, d) THEN dirs \ {d}
    ELSE dirs

RECURSIVE CleanupParents(_, _, _)
\* the loop "Clean up empty parent directories up to root" of delete_object
CleanupParents(files, dirs, d) ==
    IF d = ROOT THEN dirs
    ELSE IF d \in dirs /\ DirEmpty(files, dirs, d)
         THEN CleanupParents(files, dirs \ {d}, PathParent(d))
         ELSE dirs

\* LocalStorageClient::delete_object: nothing to do for a path that does not
\* exist; fs::remove_file fails on a directory
LocalDeleteObject(fs, key) ==
    IF key \in DOMAIN fs.files
    THEN LET files == [k \in (DOMAIN fs.files) \ {key} |-> fs.files[k]]
         IN [ok |-> TRUE,
             fs |-> [files |-> files,
                     dirs |-> CleanupParents(files, fs.dirs, PathParent(key))]]
    ELSE IF key \in fs.dirs THEN [ok |-> FALSE, fs |-> fs]
    ELSE [ok |-> TRUE, fs |-> fs]

\* collect_files_recursive(dir, root, keys)
FilesBelow(fs, d) == {k \in DOMAIN fs.files : d \in PathAncestors(k)}

\* Path::exists of root.join(prefix): a path written with a trailing
\* separator exists only as a directory
PathExists(fs, prefix) ==
    IF TrimSlash(prefix) # prefix THEN TrimSlash(prefix) \in fs.dirs
    ELSE prefix \in (DOMAIN fs.files) \cup fs.dirs

\* LocalStorageClient::list_objects.  A prefix that resolves to a directory
\* lists the files below it, one that resolves to a file lists that file,
\* and one that resolves to nothing lists every entry of the parent
\* directory whose name starts with the last component of the prefix (a
\* file as itself, a directory as the files below it).
LocalListObjects(fs, prefix) ==
    LET base == TrimSlash(prefix)
        entries == {e \in ((DOMAIN fs.files) \cup fs.dirs) \ {ROOT} :
                       /\ PathParent(e) = PathParent(base)
                       /\ StartsWith(PathFileName(e), PathFileName(base))}
    IN IF ~PathExists(fs, prefix)
       THEN IF PathParent(base) \in fs.dirs
            THEN UNION {IF e \in DOMAIN fs.files THEN {e} ELSE FilesBelow(fs, e) :
                          e \in entries}
            ELSE {}
       ELSE IF base \in DOMAIN fs.files THEN {base}
       ELSE FilesBelow(fs, base)

(***************************************************************************)
(* SkillsIndex: a sequence of entries, each with a version -> key map      *)
(***************************************************************************)
EmptyIndex == << >>

Range(f) == {f[i] : i \in DOMAIN f}

\* position of the first entry named n, 0 if none (iter().find)
FindPos(idx, n) ==
    IF \E i \in 1..Len(idx) : idx[i].name = n
    THEN CHOOSE i \in 1..Len(idx) :
            /\ idx[i].name = n
            /\ \A j \in 1..(i-1) : idx[j].name # n
    ELSE 0

HasSkill(idx, n) == FindPos(idx, n) # 0

find_skill(idx, n) == idx[FindPos(idx, n)]

MapPut(m, k, val) == [x \in (DOMAIN m) \cup {k} |-> IF x = k THEN val ELSE m[x]]
MapRemove(m, k) == [x \in (DOMAIN m) \ {k} |-> m[x]]

\* add_or_update_skill without the find_skill_mut branch: always a push
add_or_update_skill_always_push(idx, n, d, u, v, key) ==
    Append(idx, [name |-> n, description |-> d, llms_txt_url |-> u,
                 versions |-> MapPut(<< >>, v, key)])

add_or_update_skill(idx, n, d, u, v, key) ==
    IF HasSkill(idx, n)
    THEN [idx EXCEPT ![FindPos(idx, n)] =
            [name |-> n, description |-> d, llms_txt_url |-> u,
             versions |-> MapPut(@.versions, v, key)]]
    ELSE Append(idx, [name |-> n, description |-> d, llms_txt_url |-> u,
                      versions |-> MapPut(<< >>, v, key)])

\* return value of add_or_update_skill
add_or_update_was_update(idx, n) == HasSkill(idx, n)

RECURSIVE Retain(_, _)
\* Vec::retain(|s| s.name != n)
Retain(idx, n) ==
    IF idx = << >> THEN << >>
    ELSE IF Head(idx).name = n THEN Retain(Tail(idx), n)
         ELSE <<Head(idx)>> \o Retain(Tail(idx), n)

remove_skill(idx, n) == Retain(idx, n)

\* remove_version without the `if entry.versions.is_empty()` cascade
remove_version_keep_entry(idx, n, v) ==
    IF HasSkill(idx, n)
    THEN [idx EXCEPT ![FindPos(idx, n)].versions = MapRemove(@, v)]
    ELSE idx

remove_version(idx, n, v) ==
    IF HasSkill(idx, n)
    THEN LET i == FindPos(idx, n)
             vs == MapRemove(idx[i].versions, v)
         IN IF DOMAIN vs = {}
            THEN remove_skill(idx, n)
            ELSE [idx EXCEPT ![i].versions = vs]
    ELSE idx

remove_version_existed(idx, n, v) ==
    HasSkill(idx, n) /\ v \in DOMAIN find_skill(idx, n).versions

(***************************************************************************)
(* Semantic version comparison (index.rs compare_semver, latest_version)   *)
(***************************************************************************)
Digits == {"0","1","2","3","4","5","6","7","8","9"}

DigitVal(c) ==
    CASE c = "0" -> 0 [] c = "1" -> 1 [] c = "2" -> 2 [] c = "3" -> 3
      [] c = "4" -> 4 [] c = "5" -> 5 [] c = "6" -> 6 [] c = "7" -> 7
      [] c = "8" -> 8 [] c = "9" -> 9

RECURSIVE TrimStartV(_)
\* str::trim_start_matches('v')
TrimStartV(s) ==
    IF s # << >> /\ Head(s) = "v" THEN TrimStartV(Tail(s)) ELSE s

RECURSIVE SplitDot(_, _)
\* str::split('.'): cur is the component being accumulated
SplitDot(s, cur) ==
    IF s = << >> THEN <<cur>>
    ELSE IF Head(s) = "." THEN <<cur>> \o SplitDot(Tail(s), << >>)
         ELSE SplitDot(Tail(s), Append(cur, Head(s)))

\* str::parse::<u64>() succeeds: an optional '+' followed by one or more digits
IsU64(p) ==
    LET body == IF p # << >> /\ Head(p) = "+" THEN Tail(p) ELSE p
    IN body # << >> /\ \A i \in 1..Len(body) : body[i] \in Digits

RECURSIVE DigitsVal(_, _)
DigitsVal(p, acc) ==
    IF p = << >> THEN acc ELSE DigitsVal(Tail(p), acc * 10 + DigitVal(Head(p)))

U64Val(p) == DigitsVal(IF Head(p) = "+" THEN Tail(p) ELSE p, 0)

RECURSIVE FilterMapParse(_)
\* .filter_map(|p| p.parse().ok()): unparsable components are dropped
FilterMapParse(parts) ==
    IF parts = << >> THEN << >>
    ELSE IF IsU64(Head(parts))
         THEN <<U64Val(Head(parts))>> \o FilterMapParse(Tail(parts))
         ELSE FilterMapParse(Tail(parts))

\* the closure `parse` of compare_semver
ParseVersion(s) == FilterMapParse(SplitDot(TrimStartV(s), << >>))

\* va.get(i).copied().unwrap_or(0), i counted from 1
PartOr0(v, i) == IF i <= Len(v) THEN v[i] ELSE 0

\* compare_semver answering Equal whatever the two versions are
compare_semver_always_equal(a, b) == 0

\* Ordering as -1 (Less), 0 (Equal), 1 (Greater)
compare_semver(a, b) ==
    LET va == ParseVersion(a)
        vb == ParseVersion(b)
        diff == {i \in 1..3 : PartOr0(va, i) # PartOr0(vb, i)}
    IN IF diff = {} THEN 0
       ELSE LET i == CHOOSE j \in diff : \A k \in diff : j <= k
            IN IF PartOr0(va, i) < PartOr0(vb, i) THEN -1 ELSE 1

\* Iterator::max_by over HashMap keys: the iteration order is unspecified,
\* so any key that no other key exceeds may be returned.
LatestCandidates(idx, n) ==
    IF HasSkill(idx, n)
    THEN LET vs == DOMAIN find_skill(idx, n).versions
         IN {v \in vs : \A w \in vs : compare_semver(w, v) <= 0}
    ELSE {}

(***************************************************************************)
(* Index persistence (index.rs load_index, save_index)                     *)
(***************************************************************************)
\* serialization with `#[serde(skip)]` on IndexEntry::description
ToJson_skipping_description(idx) ==
    JsonDoc([i \in 1..Len(idx) |->
        [name |-> idx[i].name, description |-> "",
         llms_txt_url |-> idx[i].llms_txt_url,
         versions |-> {<<v, idx[i].versions[v]>> : v \in DOMAIN idx[i].versions}]])

\* serde_json::to_string_pretty: the version map becomes a JSON object,
\* i.e. a set of (member name, value) pairs
ToJson(idx) ==
    JsonDoc([i \in 1..Len(idx) |->
        [name |-> idx[i].name, description |-> idx[i].description,
         llms_txt_url |-> idx[i].llms_txt_url,
         versions |-> {<<v, idx[i].versions[v]>> : v \in DOMAIN idx[i].versions}]])

\* serde_json::from_str on a well-formed document
FromJson(doc) ==
    [i \in 1..Len(doc.skills) |->
        [name |-> doc.skills[i].name, description |-> doc.skills[i].description,
         llms_txt_url |-> doc.skills[i].llms_txt_url,
         versions |-> [v \in {m[1] : m \in doc.skills[i].versions} |->
                          (CHOOSE m \in doc.skills[i].versions : m[1] = v)[2]]]]

\* get_object on a store that is reachable (down = FALSE) or not
GetOk(s, down, key) == ~down /\ StoreExists(s, key)

\* load_index with `Err(e) => Err(e)` for a store that cannot be reached
load_index_propagating(s, down) ==
    IF down THEN [ok |-> FALSE, index |-> EmptyIndex]
    ELSE IF StoreExists(s, INDEX_KEY)
    THEN IF s[INDEX_KEY].kind = "json"
         THEN [ok |-> TRUE, index |-> FromJson(s[INDEX_KEY])]
         ELSE [ok |-> FALSE, index |-> EmptyIndex]
    ELSE [ok |-> TRUE, index |-> EmptyIndex]

\* load_index: any get_object error yields the empty index; a document
\* that was read but does not parse is an error.
load_index(s, down) ==
    IF GetOk(s, down, INDEX_KEY)
    THEN IF s[INDEX_KEY].kind = "json"
         THEN [ok |-> TRUE, index |-> FromJson(s[INDEX_KEY])]
         ELSE [ok |-> FALSE, index |-> EmptyIndex]
    ELSE [ok |-> TRUE, index |-> EmptyIndex]

\* save_index: the store after a successful put of the serialized index
save_index(s, idx) == StorePut(s, INDEX_KEY, ToJson(idx))

\* the index a reader would obtain from the primary store right now
PersistedIndex(s) ==
    IF StoreExists(s, INDEX_KEY) /\ s[INDEX_KEY].kind = "json"
    THEN FromJson(s[INDEX_KEY]) ELSE EmptyIndex

(***************************************************************************)
(* State of one Repository<S> and of the operation it is executing         *)
(***************************************************************************)
VARIABLES
    primary,      \* Repository.client: the primary object store
    cache,        \* Repository.local_cache: the cache store (when hasCache)
    hasCache,     \* local_cache.is_some()
    primaryDown,  \* every call to the primary store currently fails
    cacheDown,    \* every call to the cache store currently fails
    pc,           \* position inside the running operation, "idle" between
    op,           \* arguments of the running operation; for a download also
                  \* whether it repeats a pinned download, and the pinned bytes
    index,        \* the operation's local `index`
    resolved,     \* download's resolved_version
    todo,         \* keys still to be deleted by the running delete
    result,       \* what the operation returned
    trace,        \* store calls issued by the running operation, in order
    lastLoad,     \* observation of the operation's load_index call
    lastUp,       \* history: payload of the latest successful upload of
                  \* (name, version) not deleted since
    pinned,       \* history: bytes of the latest successful cached download
                  \* of (name, version), while no primary call has succeeded since
    nops          \* operations started so far

\* State of a SkillsIndex value that is called directly
VARIABLES
    idx,     \* a SkillsIndex value, SkillsIndex::new() at first
    iret     \* the last call on idx, the bool it returned, whether a
             \* remove_version was given the only version of its skill, and
             \* for an upsert its arguments and whether it gave a mapped
             \* version another key

idxVars == <<idx, iret>>

\* State of one call of resolve_and_install
VARIABLES
    rcfg,     \* config: repository present, has_local(), has_remote()
    ropts,    \* InstallOptions flags local_only, remote_only, github_only
    world,    \* what each source answers when it is asked
    rpc,      \* position inside resolve_and_install
    rlog,     \* the source attempts made so far, in order
    rresult   \* the value returned

resVars == <<rcfg, ropts, world, rpc, rlog, rresult>>

repoVars == <<primary, cache, hasCache, primaryDown, cacheDown, pc, op, index,
              resolved, todo, result, trace, lastLoad, lastUp, pinned, nops>>

\* State of a second Repository (without a cache) that works on the same
\* primary store
VARIABLES
    other    \* its running operation: position, arguments, local index,
             \* keys still to delete, and the status it returned

conVars == <<other>>

\* State of two object stores that are given the same calls: a
\* LocalStorageClient and an in-memory store (MockS3Client)
VARIABLES
    fs,      \* the directory tree below the root of the LocalStorageClient
    mem,     \* MockS3Client.store
    want,    \* history: for every key the bytes of its most recent put that
             \* no delete of the key followed
    sret     \* the last call and what each of the two stores answered

stoVars == <<fs, mem, want, sret>>

\* State of the calls on a RepositoryConfig
VARIABLES
    cret     \* the last call: the configuration it was given, what the
             \* environment answered, and what the call returned

cfgVars == <<cret>>

vars == <<repoVars, idxVars, resVars, conVars, stoVars, cfgVars>>

NoData == Blob("")
NoOp == [kind |-> "none", name |-> << >>, version |-> NoVersion,
         payload |-> "", description |-> "", url |-> "",
         changelog |-> FALSE, source |-> FALSE,
         repeat |-> FALSE, expect |-> Blob("")]
NoResult == [status |-> "none", data |-> NoData, version |-> NoVersion]
NoLoad == [called |-> FALSE, ok |-> FALSE, empty |-> FALSE,
           keyPresent |-> FALSE, getFailed |-> FALSE, wellFormed |-> FALSE,
           index |-> EmptyIndex, keys |-> {}]
\* (name, version) pairs with a separator inside the name or the version
SlashPairs ==
    { << <<"a">>, <<"a","/","1","/","a">> >>, << <<"a","/","a">>, <<"1">> >> }
Pairs == (Names \X Versions) \cup SlashPairs

Call(store, call, key, ok) == [store |-> store, call |-> call, key |-> key, ok |-> ok]

\* what load_index was given and what it answered, with the index it
\* returned and the keys the store held at that moment
ObserveLoad(s, down) ==
    [called |-> TRUE,
     ok |-> load_index(s, down).ok,
     empty |-> load_index(s, down).index = EmptyIndex,
     keyPresent |-> StoreExists(s, INDEX_KEY),
     getFailed |-> down,
     wellFormed |-> StoreExists(s, INDEX_KEY) /\ s[INDEX_KEY].kind = "json",
     index |-> load_index(s, down).index,
     keys |-> DOMAIN s]

\* a primary call that succeeds ends every pin
Unpin(ok) == IF ok THEN [q \in Pairs |-> NoData] ELSE pinned

RepoInit ==
    /\ primary = EmptyStore
    /\ cache = EmptyStore
    /\ hasCache \in BOOLEAN
    /\ primaryDown = FALSE
    /\ cacheDown = FALSE
    /\ pc = "idle"
    /\ op = NoOp
    /\ index = EmptyIndex
    /\ resolved = NoVersion
    /\ todo = << >>
    /\ result = NoResult
    /\ trace = << >>
    /\ lastLoad = NoLoad
    /\ lastUp = [q \in Pairs |-> NoData]
    /\ pinned = [q \in Pairs |-> NoData]
    /\ nops = 0

\* the operation returns
Return(status, data, ver) ==
    /\ pc' = "done"
    /\ result' = [status |-> status, data |-> data, version |-> ver]

\* the caller takes the result; the operation's locals go out of scope
Finish ==
    /\ pc = "done"
    /\ pc' = "idle"
    /\ op' = NoOp
    /\ index' = EmptyIndex
    /\ resolved' = NoVersion
    /\ todo' = << >>
    /\ result' = NoResult
    /\ trace' = << >>
    /\ lastLoad' = NoLoad
    /\ UNCHANGED <<primary, cache, hasCache, primaryDown, cacheDown, lastUp,
                   pinned, nops>>
    /\ UNCHANGED <<idxVars, resVars, conVars, stoVars, cfgVars>>

(***************************************************************************)
(* Repository::upload                                                      *)
(***************************************************************************)
StartUpload(n, v, p, d, u, cl, src) ==
    /\ pc = "idle"
    /\ nops < MaxOps
    /\ nops' = nops + 1
    /\ op' = [kind |-> "upload", name |-> n, version |-> v, payload |-> p,
              description |-> d, url |-> u, changelog |-> cl, source |-> src,
              repeat |-> FALSE, expect |-> NoData]
    /\ pc' = "up_put_skill"
    /\ UNCHANGED <<primary, cache, hasCache, primaryDown, cacheDown, index,
                   resolved, todo, result, trace, lastLoad, lastUp, pinned>>
    /\ UNCHANGED <<idxVars, resVars, conVars, stoVars, cfgVars>>

\* one put_object of upload on the primary store; `?` returns on failure
UploadPut(at, key, data, next) ==
    /\ pc = at
    /\ trace' = Append(trace, Call("primary", "put", key, ~primaryDown))
    /\ pinned' = Unpin(~primaryDown)
    /\ IF primaryDown
       THEN /\ Return("error", NoData, NoVersion)
            /\ UNCHANGED primary
       ELSE /\ primary' = StorePut(primary, key, data)
            /\ pc' = next
            /\ UNCHANGED result
    /\ UNCHANGED <<cache, hasCache, primaryDown, cacheDown, op, index, resolved,
                   todo, lastLoad, lastUp, nops>>
    /\ UNCHANGED <<idxVars, resVars, conVars, stoVars, cfgVars>>

UploadPutSkill ==
    UploadPut("up_put_skill", SkillKey(op.name, op.version), Blob(op.payload),
              IF op.changelog THEN "up_put_changelog"
              ELSE IF op.source THEN "up_put_source" ELSE "up_load")

UploadPutChangelog ==
    UploadPut("up_put_changelog", ChangelogKey(op.name, op.version), CHANGELOG_DATA,
              IF op.source THEN "up_put_source" ELSE "up_load")

UploadPutSource ==
    UploadPut("up_put_source", SourceKey(op.name, op.version), ARCHIVE_DATA, "up_load")

\* load_index(&self.client)? followed by index.add_or_update_skill(..)
UploadLoadIndex ==
    /\ pc = "up_load"
    /\ trace' = Append(trace, Call("primary", "get", INDEX_KEY,
                                   GetOk(primary, primaryDown, INDEX_KEY)))
    /\ pinned' = Unpin(GetOk(primary, primaryDown, INDEX_KEY))
    /\ lastLoad' = ObserveLoad(primary, primaryDown)
    /\ LET r == load_index(primary, primaryDown)
       IN IF r.ok
          THEN /\ index' = add_or_update_skill(r.index, op.name, op.description,
                                op.url, op.version, SkillKey(op.name, op.version))
               /\ pc' = "up_save"
               /\ UNCHANGED result
          ELSE /\ Return("error", NoData, NoVersion)
               /\ UNCHANGED index
    /\ UNCHANGED <<primary, cache, hasCache, primaryDown, cacheDown, op, resolved,
                   todo, lastUp, nops>>
    /\ UNCHANGED <<idxVars, resVars, conVars, stoVars, cfgVars>>

\* save_index(&self.client, &index)?; Ok(())
UploadSaveIndex ==
    /\ pc = "up_save"
    /\ trace' = Append(trace, Call("primary", "put", INDEX_KEY, ~primaryDown))
    /\ pinned' = Unpin(~primaryDown)
    /\ IF primaryDown
       THEN /\ Return("error", NoData, NoVersion)
            /\ UNCHANGED <<primary, lastUp>>
       ELSE /\ primary' = save_index(primary, index)
            /\ Return("ok", NoData, NoVersion)
            /\ lastUp' = [lastUp EXCEPT ![<<op.name, op.version>>] = Blob(op.payload)]
    /\ UNCHANGED <<cache, hasCache, primaryDown, cacheDown, op, index, resolved,
                   todo, lastLoad, nops>>
    /\ UNCHANGED <<idxVars, resVars, conVars, stoVars, cfgVars>>

(***************************************************************************)
(* Repository::download                                                    *)
(***************************************************************************)
StartDownload(n, vo) ==
    /\ pc = "idle"
    /\ nops < MaxOps
    /\ nops' = nops + 1
    /\ op' = [NoOp EXCEPT !.kind = "download", !.name = n, !.version = vo,
                          !.repeat = (vo # NoVersion /\ pinned[<<n, vo>>] # NoData),
                          !.expect = IF vo # NoVersion THEN pinned[<<n, vo>>]
                                     ELSE NoData]
    /\ pc' = "dl_load"
    /\ UNCHANGED <<primary, cache, hasCache, primaryDown, cacheDown, index,
                   resolved, todo, result, trace, lastLoad, lastUp, pinned>>
    /\ UNCHANGED <<idxVars, resVars, conVars, stoVars, cfgVars>>

\* index.find_skill(name) ... entry.versions.get(&resolved_version)
HasMapping(ix, n, v) == HasSkill(ix, n) /\ v \in DOMAIN find_skill(ix, n).versions

\* "Find S3 path from index": not-found unless the index maps (name, v)
DownloadLookup(ix, v) ==
    IF HasMapping(ix, op.name, v)
    THEN /\ pc' = "dl_get"
         /\ UNCHANGED result
    ELSE Return("notfound", NoData, v)

\* load_index(&self.client)? and the resolution of resolved_version
DownloadLoadIndex ==
    /\ pc = "dl_load"
    /\ trace' = Append(trace, Call("primary", "get", INDEX_KEY,
                                   GetOk(primary, primaryDown, INDEX_KEY)))
    /\ pinned' = Unpin(GetOk(primary, primaryDown, INDEX_KEY))
    /\ lastLoad' = ObserveLoad(primary, primaryDown)
    /\ LET r == load_index(primary, primaryDown)
       IN IF ~r.ok
          THEN /\ Return("error", NoData, NoVersion)
               /\ UNCHANGED <<index, resolved>>
          ELSE /\ index' = r.index
               /\ IF op.version = NoVersion /\ LatestCandidates(r.index, op.name) = {}
                  THEN /\ Return("notfound", NoData, NoVersion)
                       /\ UNCHANGED resolved
                  ELSE \E v \in (IF op.version = NoVersion
                                 THEN LatestCandidates(r.index, op.name)
                                 ELSE {op.version}) :
                          /\ resolved' = v
                          /\ IF hasCache
                             THEN /\ pc' = "dl_cache_exists"
                                  /\ UNCHANGED result
                             ELSE DownloadLookup(r.index, v)
    /\ UNCHANGED <<primary, cache, hasCache, primaryDown, cacheDown, op, todo,
                   lastUp, nops>>
    /\ UNCHANGED <<idxVars, resVars, conVars, stoVars, cfgVars>>

\* cache.object_exists(&cache_key).unwrap_or(false)
DownloadCacheExists ==
    /\ pc = "dl_cache_exists"
    /\ LET key == SkillKey(op.name, resolved)
           hit == ~cacheDown /\ StoreExists(cache, key)
       IN /\ trace' = Append(trace, Call("cache", "exists", key, ~cacheDown))
          /\ IF hit
             THEN /\ pc' = "dl_cache_get"
                  /\ UNCHANGED result
             ELSE DownloadLookup(index, resolved)
    /\ UNCHANGED <<primary, cache, hasCache, primaryDown, cacheDown, op, index,
                   resolved, todo, lastLoad, lastUp, pinned, nops>>
    /\ UNCHANGED <<idxVars, resVars, conVars, stoVars, cfgVars>>

\* let data = cache.get_object(&cache_key)?; return write_output(..)
DownloadCacheGet ==
    /\ pc = "dl_cache_get"
    /\ LET key == SkillKey(op.name, resolved)
           ok == GetOk(cache, cacheDown, key)
       IN /\ trace' = Append(trace, Call("cache", "get", key, ok))
          /\ IF ok
             THEN /\ Return("ok", cache[key], resolved)
                  /\ pinned' = [pinned EXCEPT ![<<op.name, resolved>>] = cache[key]]
             ELSE /\ Return("error", NoData, resolved)
                  /\ UNCHANGED pinned
    /\ UNCHANGED <<primary, cache, hasCache, primaryDown, cacheDown, op, index,
                   resolved, todo, lastLoad, lastUp, nops>>
    /\ UNCHANGED <<idxVars, resVars, conVars, stoVars, cfgVars>>

\* let data = self.client.get_object(s3_path)?
DownloadGet ==
    /\ pc = "dl_get"
    /\ LET key == find_skill(index, op.name).versions[resolved]
           ok == GetOk(primary, primaryDown, key)
       IN /\ trace' = Append(trace, Call("primary", "get", key, ok))
          /\ IF ~ok
             THEN /\ Return("error", NoData, resolved)
                  /\ UNCHANGED pinned
             ELSE IF hasCache
                  THEN /\ pc' = "dl_cache_put"
                       /\ result' = [NoResult EXCEPT !.data = primary[key]]
                       /\ pinned' = Unpin(TRUE)
                  ELSE /\ Return("ok", primary[key], resolved)
                       /\ pinned' = Unpin(TRUE)
    /\ UNCHANGED <<primary, cache, hasCache, primaryDown, cacheDown, op, index,
                   resolved, todo, lastLoad, lastUp, nops>>
    /\ UNCHANGED <<idxVars, resVars, conVars, stoVars, cfgVars>>

\* the cache write as `cache.put_object(&cache_key, &data)?`: a failed
\* write fails the download
DownloadCachePut_propagating ==
    /\ pc = "dl_cache_put"
    /\ LET key == SkillKey(op.name, resolved)
       IN /\ trace' = Append(trace, Call("cache", "put", key, ~cacheDown))
          /\ cache' = IF cacheDown THEN cache ELSE StorePut(cache, key, result.data)
          /\ IF cacheDown THEN Return("error", NoData, resolved)
             ELSE Return("ok", result.data, resolved)
          /\ pinned' = IF cacheDown THEN pinned
                       ELSE [pinned EXCEPT ![<<op.name, resolved>>] = result.data]
    /\ UNCHANGED <<primary, hasCache, primaryDown, cacheDown, op, index,
                   resolved, todo, lastLoad, lastUp, nops>>
    /\ UNCHANGED <<idxVars, resVars, conVars, stoVars, cfgVars>>

\* cache.put_object(&cache_key, &data).ok(); write_output(..)
DownloadCachePut ==
    /\ pc = "dl_cache_put"
    /\ LET key == SkillKey(op.name, resolved)
       IN /\ trace' = Append(trace, Call("cache", "put", key, ~cacheDown))
          /\ cache' = IF cacheDown THEN cache ELSE StorePut(cache, key, result.data)
          /\ Return("ok", result.data, resolved)
          /\ pinned' = [pinned EXCEPT ![<<op.name, resolved>>] = result.data]
    /\ UNCHANGED <<primary, hasCache, primaryDown, cacheDown, op, index,
                   resolved, todo, lastLoad, lastUp, nops>>
    /\ UNCHANGED <<idxVars, resVars, conVars, stoVars, cfgVars>>

(***************************************************************************)
(* Repository::delete                                                      *)
(***************************************************************************)
StartDelete(n, vo) ==
    /\ pc = "idle"
    /\ nops < MaxOps
    /\ nops' = nops + 1
    /\ op' = [NoOp EXCEPT !.kind = "delete", !.name = n, !.version = vo]
    /\ pc' = "del_load"
    /\ UNCHANGED <<primary, cache, hasCache, primaryDown, cacheDown, index,
                   resolved, todo, result, trace, lastLoad, lastUp, pinned>>
    /\ UNCHANGED <<idxVars, resVars, conVars, stoVars, cfgVars>>

\* delete_version_keys without the source archive key
VersionKeys_without_source(n, v) == <<SkillKey(n, v), ChangelogKey(n, v)>>

\* the `keys` array of the closure delete_version_keys
VersionKeys(n, v) == <<SkillKey(n, v), ChangelogKey(n, v), SourceKey(n, v)>>

\* the orders in which a collection without a specified order may be iterated
Orders(S) == {f \in [1..Cardinality(S) -> S] : \A i, j \in DOMAIN f : f[i] = f[j] => i = j}

RECURSIVE AllVersionKeys(_, _)
AllVersionKeys(n, vs) ==
    IF vs = << >> THEN << >>
    ELSE VersionKeys(n, Head(vs)) \o AllVersionKeys(n, Tail(vs))

\* let mut index = load_index(&self.client)?; and the keys the call will delete
DeleteLoadIndex ==
    /\ pc = "del_load"
    /\ trace' = Append(trace, Call("primary", "get", INDEX_KEY,
                                   GetOk(primary, primaryDown, INDEX_KEY)))
    /\ pinned' = Unpin(GetOk(primary, primaryDown, INDEX_KEY))
    /\ lastLoad' = ObserveLoad(primary, primaryDown)
    /\ LET r == load_index(primary, primaryDown)
       IN IF ~r.ok
          THEN /\ Return("error", NoData, NoVersion)
               /\ UNCHANGED <<index, todo>>
          ELSE /\ index' = r.index
               /\ UNCHANGED result
               /\ \E keys \in (IF op.version # NoVersion
                               THEN {VersionKeys(op.name, op.version)}
                               ELSE IF HasSkill(r.index, op.name)
                               THEN {AllVersionKeys(op.name, o) :
                                       o \in Orders(DOMAIN find_skill(r.index, op.name).versions)}
                               ELSE {<< >>}) :
                     /\ todo' = keys
                     /\ pc' = IF keys = << >> THEN "del_save" ELSE "del_key"
    /\ UNCHANGED <<primary, cache, hasCache, primaryDown, cacheDown, op, resolved,
                   lastUp, nops>>
    /\ UNCHANGED <<idxVars, resVars, conVars, stoVars, cfgVars>>

\* delete_version_keys with `client.delete_object(key)?`: the first failed
\* deletion ends the call
DeleteKey_propagating ==
    /\ pc = "del_key"
    /\ trace' = Append(trace, Call("primary", "delete", Head(todo), ~primaryDown))
    /\ pinned' = Unpin(~primaryDown)
    /\ IF primaryDown
       THEN /\ Return("error", NoData, NoVersion)
            /\ UNCHANGED <<primary, todo>>
       ELSE /\ primary' = StoreDelete(primary, Head(todo))
            /\ todo' = Tail(todo)
            /\ pc' = IF Tail(todo) = << >> THEN "del_save" ELSE "del_key"
            /\ UNCHANGED result
    /\ UNCHANGED <<cache, hasCache, primaryDown, cacheDown, op, index, resolved,
                   lastLoad, lastUp, nops>>
    /\ UNCHANGED <<idxVars, resVars, conVars, stoVars, cfgVars>>

\* if let Err(e) = client.delete_object(key) { out.warn(..) }
DeleteKey ==
    /\ pc = "del_key"
    /\ trace' = Append(trace, Call("primary", "delete", Head(todo), ~primaryDown))
    /\ pinned' = Unpin(~primaryDown)
    /\ primary' = IF primaryDown THEN primary ELSE StoreDelete(primary, Head(todo))
    /\ todo' = Tail(todo)
    /\ pc' = IF Tail(todo) = << >> THEN "del_save" ELSE "del_key"
    /\ UNCHANGED <<cache, hasCache, primaryDown, cacheDown, op, index, resolved,
                   result, lastLoad, lastUp, nops>>
    /\ UNCHANGED <<idxVars, resVars, conVars, stoVars, cfgVars>>

\* index.remove_version(name, ver) / index.remove_skill(name)
DeleteUpdatedIndex ==
    IF op.version # NoVersion
    THEN remove_version(index, op.name, op.version)
    ELSE remove_skill(index, op.name)

\* save_index(&self.client, &index)?; then on to "Clear local cache"
DeleteSaveIndex ==
    /\ pc = "del_save"
    /\ trace' = Append(trace, Call("primary", "put", INDEX_KEY, ~primaryDown))
    /\ pinned' = Unpin(~primaryDown)
    /\ index' = DeleteUpdatedIndex
    /\ IF primaryDown
       THEN /\ Return("error", NoData, NoVersion)
            /\ UNCHANGED <<primary, lastUp, todo>>
       ELSE /\ primary' = save_index(primary, DeleteUpdatedIndex)
            /\ lastUp' = [q \in Pairs |->
                            IF q[1] = op.name /\ op.version \in {NoVersion, q[2]}
                            THEN NoData ELSE lastUp[q]]
            /\ IF ~hasCache
               THEN /\ Return("ok", NoData, NoVersion)
                    /\ UNCHANGED todo
               ELSE IF op.version # NoVersion
               THEN /\ pc' = "del_cache_del"
                    /\ todo' = <<SkillKey(op.name, op.version)>>
                    /\ UNCHANGED result
               ELSE /\ pc' = "del_cache_list"
                    /\ UNCHANGED <<todo, result>>
    /\ UNCHANGED <<cache, hasCache, primaryDown, cacheDown, op, resolved,
                   lastLoad, nops>>
    /\ UNCHANGED <<idxVars, resVars, conVars, stoVars, cfgVars>>

\* if let Ok(keys) = cache.list_objects(&prefix) { .. }
DeleteCacheList ==
    /\ pc = "del_cache_list"
    /\ trace' = Append(trace, Call("cache", "list", SkillPrefix(op.name), ~cacheDown))
    /\ \E keys \in (IF cacheDown THEN {<< >>}
                    ELSE Orders(LocalListObjects(TreeOf(cache), SkillPrefix(op.name)))) :
          /\ todo' = keys
          /\ IF keys = << >>
             THEN Return("ok", NoData, NoVersion)
             ELSE /\ pc' = "del_cache_del"
                  /\ UNCHANGED result
    /\ UNCHANGED <<primary, cache, hasCache, primaryDown, cacheDown, op, index,
                   resolved, lastLoad, lastUp, pinned, nops>>
    /\ UNCHANGED <<idxVars, resVars, conVars, stoVars, cfgVars>>

\* cache.delete_object(&key).ok()
DeleteCacheDel ==
    /\ pc = "del_cache_del"
    /\ trace' = Append(trace, Call("cache", "delete", Head(todo), ~cacheDown))
    /\ cache' = IF cacheDown THEN cache ELSE StoreDelete(cache, Head(todo))
    /\ todo' = Tail(todo)
    /\ IF Tail(todo) = << >>
       THEN Return("ok", NoData, NoVersion)
       ELSE UNCHANGED <<pc, result>>
    /\ UNCHANGED <<primary, hasCache, primaryDown, cacheDown, op, index,
                   resolved, lastLoad, lastUp, pinned, nops>>
    /\ UNCHANGED <<idxVars, resVars, conVars, stoVars, cfgVars>>

(***************************************************************************)
(* Environment: the primary store becomes unreachable / reachable again    *)
(***************************************************************************)
PrimaryOutage ==
    /\ primaryDown' = ~primaryDown
    /\ UNCHANGED <<primary, cache, hasCache, cacheDown, pc, op, index, resolved,
                   todo, result, trace, lastLoad, lastUp, pinned, nops>>
    /\ UNCHANGED <<idxVars, resVars, conVars, stoVars, cfgVars>>

\* the cache store becomes unusable / usable again
CacheOutage ==
    /\ hasCache
    /\ cacheDown' = ~cacheDown
    /\ UNCHANGED <<primary, cache, hasCache, primaryDown, pc, op, index, resolved,
                   todo, result, trace, lastLoad, lastUp, pinned, nops>>
    /\ UNCHANGED <<idxVars, resVars, conVars, stoVars, cfgVars>>

(***************************************************************************)
(* A second Repository instance on the same primary store, running upload  *)
(* and delete step by step like the first one                              *)
(***************************************************************************)
NoOther == [pc |-> "idle", kind |-> "none", name |-> << >>, version |-> NoVersion,
            payload |-> "", index |-> EmptyIndex, todo |-> << >>, status |-> "none"]

OtherInit == other = NoOther

\* what an action of the second Repository leaves alone
OtherFrame ==
    /\ UNCHANGED <<cache, hasCache, primaryDown, cacheDown, pc, op, index, resolved,
                   todo, result, trace, lastLoad>>
    /\ UNCHANGED <<idxVars, resVars, stoVars, cfgVars>>

OtherFailed == [other EXCEPT !.pc = "done", !.status = "error"]

OtherStartUpload(n, v, p) ==
    /\ other.pc = "idle"
    /\ nops < MaxOps
    /\ nops' = nops + 1
    /\ other' = [NoOther EXCEPT !.pc = "up_put_skill", !.kind = "upload",
                                !.name = n, !.version = v, !.payload = p]
    /\ UNCHANGED <<primary, lastUp, pinned>>
    /\ OtherFrame

\* self.client.put_object(&skill_key, &skill_data)?
OtherUploadPutSkill ==
    /\ other.pc = "up_put_skill"
    /\ pinned' = Unpin(~primaryDown)
    /\ IF primaryDown
       THEN /\ other' = OtherFailed
            /\ UNCHANGED primary
       ELSE /\ primary' = StorePut(primary, SkillKey(other.name, other.version),
                                   Blob(other.payload))
            /\ other' = [other EXCEPT !.pc = "up_load"]
    /\ UNCHANGED <<lastUp, nops>>
    /\ OtherFrame

\* load_index(&self.client)? followed by index.add_or_update_skill(..)
OtherUploadLoadIndex ==
    /\ other.pc = "up_load"
    /\ pinned' = Unpin(GetOk(primary, primaryDown, INDEX_KEY))
    /\ LET r == load_index(primary, primaryDown)
       IN other' = IF r.ok
                   THEN [other EXCEPT !.pc = "up_save",
                            !.index = add_or_update_skill(r.index, other.name, "d1", "u1",
                                         other.version, SkillKey(other.name, other.version))]
                   ELSE OtherFailed
    /\ UNCHANGED <<primary, lastUp, nops>>
    /\ OtherFrame

\* save_index with the index read again right before it is written
OtherUploadSaveIndex_reloading ==
    /\ other.pc = "up_save"
    /\ pinned' = Unpin(~primaryDown)
    /\ IF primaryDown
       THEN /\ other' = OtherFailed
            /\ UNCHANGED <<primary, lastUp>>
       ELSE /\ primary' = save_index(primary,
                              add_or_update_skill(load_index(primary, FALSE).index,
                                  other.name, "d1", "u1", other.version,
                                  SkillKey(other.name, other.version)))
            /\ other' = [other EXCEPT !.pc = "done", !.status = "ok"]
            /\ lastUp' = [lastUp EXCEPT ![<<other.name, other.version>>] =
                                            Blob(other.payload)]
    /\ UNCHANGED nops
    /\ OtherFrame

\* save_index(&self.client, &index)?; Ok(())
OtherUploadSaveIndex ==
    /\ other.pc = "up_save"
    /\ pinned' = Unpin(~primaryDown)
    /\ IF primaryDown
       THEN /\ other' = OtherFailed
            /\ UNCHANGED <<primary, lastUp>>
       ELSE /\ primary' = save_index(primary, other.index)
            /\ other' = [other EXCEPT !.pc = "done", !.status = "ok"]
            /\ lastUp' = [lastUp EXCEPT ![<<other.name, other.version>>] =
                                            Blob(other.payload)]
    /\ UNCHANGED nops
    /\ OtherFrame

OtherStartDelete(n, vo) ==
    /\ other.pc = "idle"
    /\ nops < MaxOps
    /\ nops' = nops + 1
    /\ other' = [NoOther EXCEPT !.pc = "del_load", !.kind = "delete",
                                !.name = n, !.version = vo]
    /\ UNCHANGED <<primary, lastUp, pinned>>
    /\ OtherFrame

\* let mut index = load_index(&self.client)?; and the keys the call will delete
OtherDeleteLoadIndex ==
    /\ other.pc = "del_load"
    /\ pinned' = Unpin(GetOk(primary, primaryDown, INDEX_KEY))
    /\ LET r == load_index(primary, primaryDown)
       IN IF ~r.ok
          THEN other' = OtherFailed
          ELSE \E keys \in (IF other.version # NoVersion
                             THEN {VersionKeys(other.name, other.version)}
                             ELSE IF HasSkill(r.index, other.name)
                             THEN {AllVersionKeys(other.name, o) :
                                     o \in Orders(DOMAIN find_skill(r.index, other.name).versions)}
                             ELSE {<< >>}) :
                  other' = [other EXCEPT !.index = r.index, !.todo = keys,
                               !.pc = IF keys = << >> THEN "del_save" ELSE "del_key"]
    /\ UNCHANGED <<primary, lastUp, nops>>
    /\ OtherFrame

\* if let Err(e) = client.delete_object(key) { out.warn(..) }
OtherDeleteKey ==
    /\ other.pc = "del_key"
    /\ pinned' = Unpin(~primaryDown)
    /\ primary' = IF primaryDown THEN primary ELSE StoreDelete(primary, Head(other.todo))
    /\ other' = [other EXCEPT !.todo = Tail(other.todo),
                     !.pc = IF Tail(other.todo) = << >> THEN "del_save" ELSE "del_key"]
    /\ UNCHANGED <<lastUp, nops>>
    /\ OtherFrame

\* index.remove_version / index.remove_skill; save_index(&self.client, &index)?
OtherDeleteSaveIndex ==
    /\ other.pc = "del_save"
    /\ pinned' = Unpin(~primaryDown)
    /\ LET updated == IF other.version # NoVersion
                      THEN remove_version(other.index, other.name, other.version)
                      ELSE remove_skill(other.index, other.name)
       IN IF primaryDown
          THEN /\ other' = [OtherFailed EXCEPT !.index = updated]
               /\ UNCHANGED <<primary, lastUp>>
          ELSE /\ primary' = save_index(primary, updated)
               /\ other' = [other EXCEPT !.index = updated, !.pc = "done", !.status = "ok"]
               /\ lastUp' = [q \in Pairs |->
                               IF q[1] = other.name /\ other.version \in {NoVersion, q[2]}
                               THEN NoData ELSE lastUp[q]]
    /\ UNCHANGED nops
    /\ OtherFrame

\* the second Repository's caller takes the result
OtherFinish ==
    /\ other.pc = "done"
    /\ other' = NoOther
    /\ UNCHANGED <<primary, lastUp, pinned, nops>>
    /\ OtherFrame

(***************************************************************************)
(* SkillsIndex used directly: add_or_update_skill, remove_skill,           *)
(* remove_version, and a save_index / load_index round trip                *)
(***************************************************************************)
IndexKeys == {SkillKey(q[1], q[2]) : q \in Names \X Versions}
NoCall == [call |-> "none", name |-> << >>, version |-> NoVersion, ret |-> FALSE,
           sole |-> FALSE, key |-> << >>, replaced |-> FALSE,
           description |-> "", url |-> ""]

\* v is the only version recorded for n
SoleVersion(i, n, v) == HasSkill(i, n) /\ DOMAIN find_skill(i, n).versions = {v}

\* the key (n, v) is mapped to before a call, << >> if it is not mapped
PrevKey(i, n, v) ==
    IF HasSkill(i, n) /\ v \in DOMAIN find_skill(i, n).versions
    THEN find_skill(i, n).versions[v] ELSE << >>

IndexInit ==
    /\ idx = EmptyIndex
    /\ iret = NoCall

Upsert(n, d, u, v, k) ==
    /\ idx' = add_or_update_skill(idx, n, d, u, v, k)
    /\ iret' = [call |-> "upsert", name |-> n, version |-> v,
                ret |-> add_or_update_was_update(idx, n), sole |-> FALSE,
                key |-> k, replaced |-> PrevKey(idx, n, v) \notin {<< >>, k},
                description |-> d, url |-> u]
    /\ UNCHANGED <<repoVars, resVars, conVars, stoVars, cfgVars>>

RemoveSkill(n) ==
    /\ idx' = remove_skill(idx, n)
    /\ iret' = [NoCall EXCEPT !.call = "remove", !.name = n,
                               !.ret = Len(remove_skill(idx, n)) < Len(idx)]
    /\ UNCHANGED <<repoVars, resVars, conVars, stoVars, cfgVars>>

RemoveVersion(n, v) ==
    /\ idx' = remove_version(idx, n, v)
    /\ iret' = [NoCall EXCEPT !.call = "remove_version", !.name = n, !.version = v,
                               !.ret = remove_version_existed(idx, n, v),
                               !.sole = SoleVersion(idx, n, v)]
    /\ UNCHANGED <<repoVars, resVars, conVars, stoVars, cfgVars>>

\* save_index into a store, then load_index from it
SaveLoad ==
    /\ idx' = load_index(save_index(EmptyStore, idx), FALSE).index
    /\ iret' = [NoCall EXCEPT !.call = "save_load",
                              !.ret = load_index(save_index(EmptyStore, idx), FALSE).ok]
    /\ UNCHANGED <<repoVars, resVars, conVars, stoVars, cfgVars>>

\* version strings given to latest_version: the three of the index tests, one
\* with a non-numeric middle component, one with two components
SemverVersions ==
    { <<"1",".","0",".","0">>, <<"2",".","1",".","0">>, <<"1",".","5",".","0">>,
      <<"1",".","x",".","9">>, <<"1",".","0">> }

\* index.latest_version(name): None, or one of the keys max_by may return
Latest(n) ==
    /\ \E v \in (IF LatestCandidates(idx, n) = {} THEN {NoVersion}
                  ELSE LatestCandidates(idx, n)) :
          iret' = [NoCall EXCEPT !.call = "latest", !.name = n, !.version = v,
                                 !.ret = (v # NoVersion)]
    /\ UNCHANGED idx
    /\ UNCHANGED <<repoVars, resVars, conVars, stoVars, cfgVars>>

(***************************************************************************)
(* The two object stores called directly: every call goes to both          *)
(***************************************************************************)
\* keys of which one is a path prefix of others, and two whose first
\* components start alike
StoreKeys ==
    { <<"a">>, <<"a","/","b">>, <<"a","/","c","/","d">>, <<"a","b">> }
StoreData == { Blob(p) : p \in Payloads }
\* prefixes with and without a trailing separator, and ending inside a
\* path component
StorePrefixes ==
    { << >>, <<"a">>, <<"a","/">>, <<"a","/","c">>, <<"a","/","c","/">>,
      <<"a","b","/">>, <<"b">> }

NoStoreCall == [call |-> "none", key |-> << >>, fsOk |-> FALSE, memOk |-> FALSE,
                fsData |-> NoData, memData |-> NoData,
                fsKeys |-> {}, memKeys |-> {}, fsExists |-> FALSE, memExists |-> FALSE]

StoreInit ==
    /\ fs = EmptyFs
    /\ mem = EmptyStore
    /\ want = EmptyStore
    /\ sret = NoStoreCall

PutObject(k, d) ==
    /\ fs' = LocalPutObject(fs, k, d).fs
    /\ mem' = StorePut(mem, k, d)
    /\ want' = [x \in (DOMAIN want) \cup {k} |-> IF x = k THEN d ELSE want[x]]
    /\ sret' = [NoStoreCall EXCEPT !.call = "put", !.key = k,
                                   !.fsOk = LocalPutObject(fs, k, d).ok,
                                   !.memOk = TRUE]
    /\ UNCHANGED <<repoVars, idxVars, resVars, conVars, cfgVars>>

GetObject(k) ==
    /\ sret' = [NoStoreCall EXCEPT !.call = "get", !.key = k,
                                   !.fsOk = LocalGetObject(fs, k).ok,
                                   !.fsData = LocalGetObject(fs, k).data,
                                   !.memOk = StoreExists(mem, k),
                                   !.memData = IF StoreExists(mem, k) THEN mem[k]
                                               ELSE NoData]
    /\ UNCHANGED <<fs, mem, want>>
    /\ UNCHANGED <<repoVars, idxVars, resVars, conVars, cfgVars>>

DeleteObject(k) ==
    /\ fs' = LocalDeleteObject(fs, k).fs
    /\ mem' = StoreDelete(mem, k)
    /\ want' = [x \in (DOMAIN want) \ {k} |-> want[x]]
    /\ sret' = [NoStoreCall EXCEPT !.call = "delete", !.key = k,
                                   !.fsOk = LocalDeleteObject(fs, k).ok,
                                   !.memOk = TRUE]
    /\ UNCHANGED <<repoVars, idxVars, resVars, conVars, cfgVars>>

ObjectExists(k) ==
    /\ sret' = [NoStoreCall EXCEPT !.call = "exists", !.key = k,
                                   !.fsOk = TRUE, !.memOk = TRUE,
                                   !.fsExists = LocalObjectExists(fs, k),
                                   !.memExists = StoreExists(mem, k)]
    /\ UNCHANGED <<fs, mem, want>>
    /\ UNCHANGED <<repoVars, idxVars, resVars, conVars, cfgVars>>

ListObjects(prefix) ==
    /\ sret' = [NoStoreCall EXCEPT !.call = "list", !.key = prefix,
                                   !.fsOk = TRUE, !.memOk = TRUE,
                                   !.fsKeys = LocalListObjects(fs, prefix),
                                   !.memKeys = StoreList(mem, prefix)]
    /\ UNCHANGED <<fs, mem, want>>
    /\ UNCHANGED <<repoVars, idxVars, resVars, conVars, cfgVars>>

(***************************************************************************)
(* config.rs: RepositoryConfig, and Repository::from_config                *)
(***************************************************************************)
\* Option<String> bucket_name: None, Some("") and Some of a name
NoBucket == [set |-> FALSE, value |-> ""]
BucketNames == {NoBucket, [set |-> TRUE, value |-> ""], [set |-> TRUE, value |-> "bucket"]}
\* Option<LocalRepositoryConfig>: None, or a section with an optional path
\* and the cache flag
NoLocal == [present |-> FALSE, path |-> "", cache |-> FALSE]
LocalSections ==
    {NoLocal} \cup [present : {TRUE}, path : {"", "/repo"}, cache : BOOLEAN]
Endpoints == {"", "http://host"}
RepositoryConfigs == [bucket_name : BucketNames, local : LocalSections, endpoint : Endpoints]

\* self.bucket_name.is_some()
has_remote(cfg) == cfg.bucket_name.set

\* local_is_cache without `&& self.has_remote()`
local_is_cache_ignoring_remote(cfg) == cfg.local.present /\ cfg.local.cache

\* self.local.as_ref().is_some_and(|l| l.cache && self.has_remote())
local_is_cache(cfg) == cfg.local.present /\ (cfg.local.cache /\ has_remote(cfg))

\* S3Client::new: fails without a bucket name, and when the region, the
\* credentials, the bucket client or the runtime cannot be set up
S3ClientNewOk(cfg, clientOk) == cfg.bucket_name.set /\ clientOk

\* Repository::from_config: the client first, then the cache layer when
\* local_is_cache(); dirOk is whether LocalStorageClient::new can create
\* the cache directory
from_config(cfg, clientOk, dirOk) ==
    IF ~S3ClientNewOk(cfg, clientOk) THEN [ok |-> FALSE, cache |-> FALSE]
    ELSE IF local_is_cache(cfg)
    THEN IF dirOk THEN [ok |-> TRUE, cache |-> TRUE]
         ELSE [ok |-> FALSE, cache |-> FALSE]
    ELSE [ok |-> TRUE, cache |-> FALSE]

NoConfigCall == [call |-> "none",
                 cfg |-> [bucket_name |-> NoBucket, local |-> NoLocal, endpoint |-> ""],
                 clientOk |-> FALSE, dirOk |-> FALSE,
                 ret |-> FALSE, ok |-> FALSE, cache |-> FALSE]

ConfigInit == cret = NoConfigCall

HasRemote(cfg) ==
    /\ cret' = [NoConfigCall EXCEPT !.call = "has_remote", !.cfg = cfg,
                                    !.ret = has_remote(cfg)]
    /\ UNCHANGED <<repoVars, idxVars, resVars, conVars, stoVars>>

LocalIsCache(cfg) ==
    /\ cret' = [NoConfigCall EXCEPT !.call = "local_is_cache", !.cfg = cfg,
                                    !.ret = local_is_cache(cfg)]
    /\ UNCHANGED <<repoVars, idxVars, resVars, conVars, stoVars>>

FromConfig(cfg, clientOk, dirOk) ==
    /\ cret' = [NoConfigCall EXCEPT !.call = "from_config", !.cfg = cfg,
                                    !.clientOk = clientOk, !.dirOk = dirOk,
                                    !.ok = from_config(cfg, clientOk, dirOk).ok,
                                    !.cache = from_config(cfg, clientOk, dirOk).cache]
    /\ UNCHANGED <<repoVars, idxVars, resVars, conVars, stoVars>>

(***************************************************************************)
(* install_resolver.rs: resolve_and_install                                *)
(***************************************************************************)
Sources == {"Local", "Remote", "GitHub"}
\* outcome of asking a repository or GitHub for the skill
Outcomes == {"ok", "notfound", "failure"}

NoConfig == [repository |-> FALSE, local |-> FALSE, remote |-> FALSE]
Configs == {NoConfig} \cup [repository : {TRUE}, local : BOOLEAN, remote : BOOLEAN]
Options == [local_only : BOOLEAN, remote_only : BOOLEAN, github_only : BOOLEAN]
NoOptions == [local_only |-> FALSE, remote_only |-> FALSE, github_only |-> FALSE]
Worlds == [Sources -> Outcomes]
NoAnswer == [status |-> "none", source |-> "none", error |-> "none", errorOf |-> "none"]

ResolverInit ==
    /\ rcfg = NoConfig
    /\ ropts = NoOptions
    /\ world = [s \in Sources |-> "notfound"]
    /\ rpc = "idle"
    /\ rlog = << >>
    /\ rresult = NoAnswer

\* install_from_local: Err unless a repository section exists; otherwise
\* the outcome of Repository::download + install_from_file on the local path
install_from_local(cfg, w) ==
    IF ~cfg.repository THEN "noconfig" ELSE w["Local"]

\* install_from_remote: Err unless a repository with a bucket is configured
install_from_remote(cfg, w) ==
    IF ~cfg.repository \/ ~cfg.remote THEN "noconfig" ELSE w["Remote"]

\* install_from_github: the outcome of install_skill
install_from_github(cfg, w) == w["GitHub"]

Attempt(src, cfg, w) ==
    CASE src = "Local" -> install_from_local(cfg, w)
      [] src = "Remote" -> install_from_remote(cfg, w)
      [] src = "GitHub" -> install_from_github(cfg, w)

\* the cascade without its `if rc.has_remote()` block
AfterLocal_skipping_remote(cfg) == "cascade_GitHub"

\* where the cascade goes after the local step / after the remote step
AfterLocal(cfg) == IF cfg.repository /\ cfg.remote THEN "cascade_Remote" ELSE "cascade_GitHub"
AfterRemote(cfg) == "cascade_GitHub"

\* resolve_and_install without its `if options.remote_only` return
FirstStep_ignoring_remote_only(cfg, o) ==
    IF o.local_only THEN "only_Local"
    ELSE IF o.github_only THEN "only_GitHub"
    ELSE IF cfg.repository /\ cfg.local THEN "cascade_Local"
    ELSE AfterLocal(cfg)

\* the first statement resolve_and_install reaches for these inputs
FirstStep(cfg, o) ==
    IF o.local_only THEN "only_Local"
    ELSE IF o.remote_only THEN "only_Remote"
    ELSE IF o.github_only THEN "only_GitHub"
    ELSE IF cfg.repository /\ cfg.local THEN "cascade_Local"
    ELSE AfterLocal(cfg)

Resolve(cfg, o, w) ==
    /\ rpc = "idle"
    /\ rcfg' = cfg
    /\ ropts' = o
    /\ world' = w
    /\ rpc' = FirstStep(cfg, o)
    /\ rlog' = << >>
    /\ rresult' = NoAnswer
    /\ UNCHANGED <<repoVars, idxVars, conVars, stoVars, cfgVars>>

Answer(src, out) ==
    IF out = "ok"
    THEN [status |-> "ok", source |-> src, error |-> "none", errorOf |-> "none"]
    ELSE [status |-> "error", source |-> "none", error |-> out, errorOf |-> src]

\* return install_from_X(..): an explicit source flag, or the final fallback
ReturnAttempt(at, src) ==
    /\ rpc = at
    /\ rlog' = Append(rlog, [source |-> src, outcome |-> Attempt(src, rcfg, world)])
    /\ rresult' = Answer(src, Attempt(src, rcfg, world))
    /\ rpc' = "done"
    /\ UNCHANGED <<rcfg, ropts, world>>
    /\ UNCHANGED <<repoVars, idxVars, conVars, stoVars, cfgVars>>

\* a cascade step that falls through on not-found only: `Err(e) => return Err(e)`
\* for every other error
CascadeAttempt_returning_failures(at, src, next) ==
    /\ rpc = at
    /\ rlog' = Append(rlog, [source |-> src, outcome |-> Attempt(src, rcfg, world)])
    /\ IF Attempt(src, rcfg, world) \in {"ok", "failure"}
       THEN /\ rresult' = Answer(src, Attempt(src, rcfg, world))
            /\ rpc' = "done"
       ELSE /\ rpc' = next
            /\ UNCHANGED rresult
    /\ UNCHANGED <<rcfg, ropts, world>>
    /\ UNCHANGED <<repoVars, idxVars, conVars, stoVars, cfgVars>>

\* match install_from_X(..) { Ok(r) => return Ok(r), Err(_) => output.info(..) }
CascadeAttempt(at, src, next) ==
    /\ rpc = at
    /\ rlog' = Append(rlog, [source |-> src, outcome |-> Attempt(src, rcfg, world)])
    /\ IF Attempt(src, rcfg, world) = "ok"
       THEN /\ rresult' = Answer(src, "ok")
            /\ rpc' = "done"
       ELSE /\ rpc' = next
            /\ UNCHANGED rresult
    /\ UNCHANGED <<rcfg, ropts, world>>
    /\ UNCHANGED <<repoVars, idxVars, conVars, stoVars, cfgVars>>

OnlyLocal == ReturnAttempt("only_Local", "Local")
OnlyRemote == ReturnAttempt("only_Remote", "Remote")
OnlyGitHub == ReturnAttempt("only_GitHub", "GitHub")
CascadeLocal == CascadeAttempt("cascade_Local", "Local", AfterLocal(rcfg))
CascadeRemote == CascadeAttempt("cascade_Remote", "Remote", AfterRemote(rcfg))
CascadeGitHub == ReturnAttempt("cascade_GitHub", "GitHub")

ResolveDone ==
    /\ rpc = "done"
    /\ rpc' = "idle"
    /\ rlog' = << >>
    /\ rresult' = NoAnswer
    /\ UNCHANGED <<rcfg, ropts, world>>
    /\ UNCHANGED <<repoVars, idxVars, conVars, stoVars, cfgVars>>

(***************************************************************************)
(* Specifications                                                          *)
(***************************************************************************)
Init == RepoInit /\ IndexInit /\ ResolverInit /\ OtherInit /\ StoreInit /\ ConfigInit

\* the names the operations of a run are started with
Upload(NS) ==
    \E n \in NS, v \in Versions, p \in Payloads :
        StartUpload(n, v, p, "d1", "u1", FALSE, FALSE)

Download(NS) == \E n \in NS, vo \in VersionOpts : StartDownload(n, vo)

Delete(NS) == \E n \in NS, vo \in VersionOpts : StartDelete(n, vo)

Next ==
    \/ Upload(Names)
    \/ UploadPutSkill
    \/ UploadLoadIndex
    \/ UploadSaveIndex
    \/ Download(Names)
    \/ DownloadLoadIndex
    \/ DownloadCacheExists
    \/ DownloadCacheGet
    \/ DownloadGet
    \/ DownloadCachePut
    \/ Delete(Names)
    \/ DeleteLoadIndex
    \/ DeleteKey
    \/ DeleteSaveIndex
    \/ DeleteCacheList
    \/ DeleteCacheDel
    \/ Finish

\* failure-free runs of one Repository over initially empty stores
Spec == Init /\ [][Next]_vars

\* the skill that the runs with outages work on
OutageNames == { <<"a">> }

NextOutage ==
    \/ Upload(OutageNames)
    \/ UploadPutSkill
    \/ UploadLoadIndex
    \/ UploadSaveIndex
    \/ Download(OutageNames)
    \/ DownloadLoadIndex
    \/ DownloadCacheExists
    \/ DownloadCacheGet
    \/ DownloadGet
    \/ DownloadCachePut
    \/ Delete(OutageNames)
    \/ DeleteLoadIndex
    \/ DeleteKey
    \/ DeleteSaveIndex
    \/ DeleteCacheList
    \/ DeleteCacheDel
    \/ Finish
    \/ PrimaryOutage

\* runs in which the primary store fails and recovers at any moment
SpecOutage == Init /\ [][NextOutage]_vars

\* uploads with and without a changelog and a source archive
UploadExtras(NS) ==
    \E n \in NS, v \in Versions, cl \in BOOLEAN, src \in BOOLEAN :
        StartUpload(n, v, "p1", "d1", "u1", cl, src)

NextExtras ==
    \/ UploadExtras(OutageNames)
    \/ UploadPutSkill
    \/ UploadPutChangelog
    \/ UploadPutSource
    \/ UploadLoadIndex
    \/ UploadSaveIndex
    \/ Delete(OutageNames)
    \/ DeleteLoadIndex
    \/ DeleteKey
    \/ DeleteSaveIndex
    \/ DeleteCacheList
    \/ DeleteCacheDel
    \/ Finish
    \/ PrimaryOutage

\* uploads of all three objects and deletes, the primary store failing and
\* recovering at any moment
SpecExtras == Init /\ [][NextExtras]_vars

\* the pairs the runs with separators in names and versions work on
KeyPairs == SlashPairs \cup { << <<"a">>, <<"1",".","0",".","0">> >> }

UploadPair(PS) ==
    \E q \in PS, p \in Payloads : StartUpload(q[1], q[2], p, "d1", "u1", FALSE, FALSE)

DownloadPair(PS) ==
    \E q \in PS : \E vo \in {q[2], NoVersion} : StartDownload(q[1], vo)

DeletePair(PS) ==
    \E q \in PS : \E vo \in {q[2], NoVersion} : StartDelete(q[1], vo)

NextKeys ==
    \/ UploadPair(KeyPairs)
    \/ UploadPutSkill
    \/ UploadLoadIndex
    \/ UploadSaveIndex
    \/ DownloadPair(KeyPairs)
    \/ DownloadLoadIndex
    \/ DownloadCacheExists
    \/ DownloadCacheGet
    \/ DownloadGet
    \/ DownloadCachePut
    \/ DeletePair(KeyPairs)
    \/ DeleteLoadIndex
    \/ DeleteKey
    \/ DeleteSaveIndex
    \/ DeleteCacheList
    \/ DeleteCacheDel
    \/ Finish

\* failure-free runs over names and versions that contain the separator
SpecKeys == Init /\ [][NextKeys]_vars

\* the version and the payload the two writers work with
WriterVersion == <<"1",".","0",".","0">>
WriterVersionOpts == {WriterVersion, NoVersion}

NextTwoWriters ==
    \/ \E n \in Names :
          nops < MaxWriterOps /\ StartUpload(n, WriterVersion, "p1", "d1", "u1", FALSE, FALSE)
    \/ UploadPutSkill
    \/ UploadLoadIndex
    \/ UploadSaveIndex
    \/ \E n \in Names, vo \in WriterVersionOpts :
          nops < MaxWriterOps /\ StartDelete(n, vo)
    \/ DeleteLoadIndex
    \/ DeleteKey
    \/ DeleteSaveIndex
    \/ DeleteCacheList
    \/ DeleteCacheDel
    \/ Finish
    \/ \E n \in Names :
          nops < MaxWriterOps /\ OtherStartUpload(n, WriterVersion, "p1")
    \/ OtherUploadPutSkill
    \/ OtherUploadLoadIndex
    \/ OtherUploadSaveIndex
    \/ \E n \in Names, vo \in WriterVersionOpts :
          nops < MaxWriterOps /\ OtherStartDelete(n, vo)
    \/ OtherDeleteLoadIndex
    \/ OtherDeleteKey
    \/ OtherDeleteSaveIndex
    \/ OtherFinish

\* two Repository instances uploading and deleting on one primary store,
\* their store calls interleaved in every way
SpecTwoWriters == Init /\ [][NextTwoWriters]_vars

\* the keys an upsert for skill n is given: the key of the version, or the
\* key of the other version
UpsertKeys(n) == {k \in IndexKeys : StartsWith(k, SkillPrefix(n))}

NextIndex ==
    \/ \E n \in Names, d \in Descriptions, u \in Urls, v \in Versions :
          \E k \in UpsertKeys(n) : Upsert(n, d, u, v, k)
    \/ \E n \in Names : RemoveSkill(n)
    \/ \E n \in Names, v \in Versions : RemoveVersion(n, v)
    \/ SaveLoad

\* any sequence of calls on one SkillsIndex, starting from the empty index
SpecIndex == Init /\ [][NextIndex]_vars

NextLatest ==
    \/ \E n \in Names, v \in SemverVersions : Upsert(n, "d1", "u1", v, SkillKey(n, v))
    \/ \E n \in Names : Latest(n)

\* latest_version asked of every index over the version strings above
SpecLatest == Init /\ [][NextLatest]_vars

NextStore ==
    \/ \E k \in StoreKeys, d \in StoreData : PutObject(k, d)
    \/ \E k \in StoreKeys : GetObject(k)
    \/ \E k \in StoreKeys : DeleteObject(k)
    \/ \E k \in StoreKeys : ObjectExists(k)
    \/ \E p \in StorePrefixes : ListObjects(p)

\* any sequence of calls given to a LocalStorageClient and to an in-memory
\* store alike, both empty at first
SpecStore == Init /\ [][NextStore]_vars

NextCacheOutage ==
    \/ Upload(OutageNames)
    \/ UploadPutSkill
    \/ UploadLoadIndex
    \/ UploadSaveIndex
    \/ Download(OutageNames)
    \/ DownloadLoadIndex
    \/ DownloadCacheExists
    \/ DownloadCacheGet
    \/ DownloadGet
    \/ DownloadCachePut
    \/ Finish
    \/ CacheOutage

\* uploads and downloads, the cache store failing and recovering at any moment
SpecCacheOutage == Init /\ [][NextCacheOutage]_vars

NextConfig ==
    \/ \E cfg \in RepositoryConfigs : HasRemote(cfg)
    \/ \E cfg \in RepositoryConfigs : LocalIsCache(cfg)
    \/ \E cfg \in RepositoryConfigs, clientOk \in BOOLEAN, dirOk \in BOOLEAN :
          FromConfig(cfg, clientOk, dirOk)

\* has_remote, local_is_cache and from_config called with every configuration
SpecConfig == Init /\ [][NextConfig]_vars

NextResolver ==
    \/ \E cfg \in Configs, o \in Options, w \in Worlds : Resolve(cfg, o, w)
    \/ OnlyLocal
    \/ OnlyRemote
    \/ OnlyGitHub
    \/ CascadeLocal
    \/ CascadeRemote
    \/ CascadeGitHub
    \/ ResolveDone

\* calls of resolve_and_install with every configuration, flag set and world
SpecResolver == Init /\ [][NextResolver]_vars

(***************************************************************************)
(* Properties                                                              *)
(***************************************************************************)
DownloadDone == pc = "done" /\ op.kind = "download"

PrimaryCalls == {i \in DOMAIN trace : trace[i].store = "primary"}

\* C1: a download of (name, version) fails with not-found whenever the
\* index persisted in the primary store has no mapping for that version of
\* that skill (for a download of the latest version: no entry for the
\* skill), whatever objects the stores hold.
C1_NotFoundWhenNotIndexed ==
    DownloadDone =>
        /\ (op.version # NoVersion
              /\ ~HasMapping(PersistedIndex(primary), op.name, op.version))
              => result.status = "notfound"
        /\ (op.version = NoVersion /\ ~HasSkill(PersistedIndex(primary), op.name))
              => result.status = "notfound"

\* C2: load_index answers with the empty index only for an absent index
\* key: when the read of the key fails because the store cannot be reached,
\* or the key holds a malformed document, load_index returns an error.
C2_LoadFailureIsAnError ==
    lastLoad.called =>
        /\ (lastLoad.getFailed \/ (lastLoad.keyPresent /\ ~lastLoad.wellFormed))
              => ~lastLoad.ok
        /\ (lastLoad.ok /\ ~lastLoad.keyPresent) => lastLoad.empty

\* C3: a download(name, v) that follows a successful download(name, v)
\* through a cache-enabled Repository issues no call to the primary store.
C3_RepeatedDownloadLeavesPrimaryAlone ==
    (DownloadDone /\ hasCache /\ op.repeat) => PrimaryCalls = {}

\* C4: a download(name, v) with an explicit version that follows a
\* successful download(name, v) through a cache-enabled Repository succeeds
\* and returns the same bytes when every primary call made since that first
\* download (its own included) has failed.
C4_RepeatedDownloadSurvivesOutage ==
    (DownloadDone /\ hasCache /\ op.repeat
        /\ \A i \in PrimaryCalls : ~trace[i].ok)
    => (result.status = "ok" /\ result.data = op.expect)

\* C4 witness: a repeated download ended well although its index read failed
C4_Witness ==
    /\ DownloadDone /\ hasCache /\ op.repeat
    /\ PrimaryCalls # {}
    /\ \A i \in PrimaryCalls : ~trace[i].ok
    /\ result.status = "ok"
    /\ result.data = Blob("p1")

\* C5: a successful download of (name, v) returns the payload of the latest
\* successful upload of (name, v), provided (name, v) was not deleted since.
C5_DownloadReturnsLatestUpload ==
    (DownloadDone /\ result.status = "ok"
        /\ lastUp[<<op.name, result.version>>] # NoData)
    => result.data = lastUp[<<op.name, result.version>>]

\* C6: in a failure-free run, at every point in time (between the store
\* calls of one operation too), every object key the persisted index maps a
\* (skill, version) to is present in the primary store.
C6_IndexedKeysPresent ==
    \A i \in DOMAIN PersistedIndex(primary) :
        \A v \in DOMAIN PersistedIndex(primary)[i].versions :
            StoreExists(primary, PersistedIndex(primary)[i].versions[v])

\* C7: starting from the empty index, after any sequence of upsert, remove,
\* remove_version and save/load, no entry has an empty version map, and a
\* remove_version of the only version of a skill leaves no entry for it.
C7_NoEntryWithoutVersions ==
    /\ \A i \in DOMAIN idx : DOMAIN idx[i].versions # {}
    /\ (iret.call = "remove_version" /\ iret.sole) => ~HasSkill(idx, iret.name)

\* C7 witness: the only version of one skill was removed while another
\* skill stays indexed
C7_Witness ==
    /\ iret.call = "remove_version" /\ iret.sole /\ iret.ret
    /\ ~HasSkill(idx, iret.name)
    /\ idx # EmptyIndex

(***************************************************************************)
(* Properties of resolve_and_install                                       *)
(***************************************************************************)
Rank(src) == CASE src = "Local" -> 1 [] src = "Remote" -> 2 [] src = "GitHub" -> 3

CascadeMode == ~ropts.local_only /\ ~ropts.remote_only /\ ~ropts.github_only
LocalConfigured == rcfg.repository /\ rcfg.local
RemoteConfigured == rcfg.repository /\ rcfg.remote
Attempted(src) == \E i \in DOMAIN rlog : rlog[i].source = src
LocalFailsOrAbsent == LocalConfigured => world["Local"] # "ok"
RemoteFailsOrAbsent == RemoteConfigured => world["Remote"] # "ok"

\* C8: without a source flag the sources are attempted in the order local
\* (only if configured), remote (only if configured), GitHub; each at most
\* once and only after every earlier attempt failed; a success carries the
\* source that produced it.  Local missing and remote holding the skill
\* gives Remote; local holding it means nothing else is attempted.
C8_CascadeOrder ==
    (rpc # "idle" /\ CascadeMode) =>
        /\ \A i, j \in DOMAIN rlog : i < j =>
              /\ Rank(rlog[i].source) < Rank(rlog[j].source)
              /\ rlog[i].outcome # "ok"
        /\ Attempted("Local") => LocalConfigured
        /\ Attempted("Remote") => RemoteConfigured
        /\ rpc = "done" =>
              /\ LocalConfigured => Attempted("Local")
              /\ (RemoteConfigured /\ LocalFailsOrAbsent) => Attempted("Remote")
              /\ (LocalFailsOrAbsent /\ RemoteFailsOrAbsent) => Attempted("GitHub")
              /\ rresult.status = "ok" =>
                    /\ rlog[Len(rlog)] = [source |-> rresult.source, outcome |-> "ok"]
                    /\ world[rresult.source] = "ok"
              /\ (LocalConfigured /\ world["Local"] = "notfound"
                    /\ RemoteConfigured /\ world["Remote"] = "ok")
                    => (rresult.status = "ok" /\ rresult.source = "Remote")
              /\ (LocalConfigured /\ world["Local"] = "ok")
                    => (rlog = <<[source |-> "Local", outcome |-> "ok"]>>
                          /\ rresult.source = "Local")

\* C8 witness: local misses, remote has the skill, the install came from Remote
C8_Witness ==
    /\ rpc = "done" /\ CascadeMode
    /\ LocalConfigured /\ world["Local"] = "notfound"
    /\ RemoteConfigured /\ world["Remote"] = "ok"
    /\ rlog = <<[source |-> "Local", outcome |-> "notfound"],
                [source |-> "Remote", outcome |-> "ok"]>>
    /\ rresult.source = "Remote"

\* the source pinned by exactly one of the three flags
PinnedSources ==
    {src \in Sources :
        \/ src = "Local" /\ ropts.local_only
        \/ src = "Remote" /\ ropts.remote_only
        \/ src = "GitHub" /\ ropts.github_only}

\* C9: with exactly one source flag set, that source alone is attempted,
\* once; its failure is returned as the failure of the call even when
\* another configured source holds the skill.
C9_PinnedSourceOnly ==
    (rpc # "idle" /\ Cardinality(PinnedSources) = 1) =>
        /\ \A i \in DOMAIN rlog : rlog[i].source \in PinnedSources
        /\ Len(rlog) <= 1
        /\ rpc = "done" =>
              /\ Len(rlog) = 1
              /\ rlog[1].outcome = "ok" =>
                    (rresult.status = "ok" /\ rresult.source \in PinnedSources)
              /\ rlog[1].outcome # "ok" =>
                    /\ rresult.status = "error"
                    /\ rresult.errorOf \in PinnedSources
                    /\ rresult.error = rlog[1].outcome

\* C9 witness: --remote fails although the local repository has the skill
C9_Witness ==
    /\ rpc = "done"
    /\ ropts = [local_only |-> FALSE, remote_only |-> TRUE, github_only |-> FALSE]
    /\ LocalConfigured /\ world["Local"] = "ok"
    /\ RemoteConfigured /\ world["Remote"] = "notfound"
    /\ rlog = <<[source |-> "Remote", outcome |-> "notfound"]>>
    /\ rresult.status = "error" /\ rresult.errorOf = "Remote"

\* C10: in the cascade every error of the local or the remote source, of
\* whatever kind, lets the cascade go on; once the configured earlier
\* sources have failed GitHub is attempted, and a failed call returns
\* GitHub's error, never the local or the remote one.
C10_CascadeReturnsFallbackError ==
    (rpc = "done" /\ CascadeMode) =>
        /\ \A i \in DOMAIN rlog :
              (rlog[i].source \in {"Local", "Remote"} /\ rlog[i].outcome # "ok")
                  => i < Len(rlog)
        /\ (LocalFailsOrAbsent /\ RemoteFailsOrAbsent) => Attempted("GitHub")
        /\ rresult.status = "error" =>
              /\ rresult.errorOf = "GitHub"
              /\ rresult.error = world["GitHub"]
              /\ rlog[Len(rlog)].source = "GitHub"

\* C10 witness: local fails with an error other than not-found, remote
\* misses, GitHub fails, and the caller gets GitHub's error
C10_Witness ==
    /\ rpc = "done" /\ CascadeMode
    /\ rlog = <<[source |-> "Local", outcome |-> "failure"],
                [source |-> "Remote", outcome |-> "notfound"],
                [source |-> "GitHub", outcome |-> "notfound"]>>
    /\ rresult.status = "error" /\ rresult.errorOf = "GitHub"

(***************************************************************************)
(* Properties of latest_version and compare_semver                         *)
(***************************************************************************)
\* the (major, minor, patch) tuple of a version string taken positionally:
\* the first three '.'-separated components, 0 for a missing or a
\* non-numeric one
PositionalTuple(s) ==
    LET parts == SplitDot(s, << >>)
    IN [i \in 1..3 |-> IF i <= Len(parts) /\ IsU64(parts[i])
                       THEN U64Val(parts[i]) ELSE 0]

TupleLess(x, y) ==
    \E i \in 1..3 : x[i] < y[i] /\ \A j \in 1..(i-1) : x[j] = y[j]

RecordedVersions(n) == IF HasSkill(idx, n) THEN DOMAIN find_skill(idx, n).versions ELSE {}

\* C11: latest(name) returns a recorded version whose positional
\* (major, minor, patch) tuple no other recorded version of the skill
\* exceeds; non-numeric components count as 0 in their own position.
C11_LatestIsGreatestPositionalTuple ==
    (iret.call = "latest" /\ RecordedVersions(iret.name) # {}) =>
        /\ iret.ret
        /\ iret.version \in RecordedVersions(iret.name)
        /\ \A w \in RecordedVersions(iret.name) :
              ~TupleLess(PositionalTuple(iret.version), PositionalTuple(w))

\* C12: two distinct version strings recorded for one skill never compare
\* Equal, so exactly one version can be returned as the latest; latest is
\* absent exactly when the skill is absent or has no versions.
C12_NoTiesUniqueLatest ==
    /\ \A i \in DOMAIN idx : \A v, w \in DOMAIN idx[i].versions :
          v # w => compare_semver(v, w) # 0
    /\ iret.call = "latest" =>
          /\ iret.ret <=> (RecordedVersions(iret.name) # {})
          /\ Cardinality(LatestCandidates(idx, iret.name)) <= 1

(***************************************************************************)
(* Properties of upload and delete under store failures                    *)
(***************************************************************************)
UploadDone == pc = "done" /\ op.kind = "upload"
DeleteDone == pc = "done" /\ op.kind = "delete"

\* positions in the trace of the running operation
PrimaryPuts == {i \in DOMAIN trace : trace[i].store = "primary" /\ trace[i].call = "put"}
IndexPuts == {i \in PrimaryPuts : trace[i].key = INDEX_KEY}
ObjectPuts == PrimaryPuts \ IndexPuts
ObjectDeletes == {i \in DOMAIN trace : trace[i].store = "primary" /\ trace[i].call = "delete"}

\* the object writes an upload with these parameters makes, in order
ExpectedPuts ==
    <<SkillKey(op.name, op.version)>>
    \o (IF op.changelog THEN <<ChangelogKey(op.name, op.version)>> ELSE << >>)
    \o (IF op.source THEN <<SourceKey(op.name, op.version)>> ELSE << >>)

\* a step of the running upload failed: a put, or the read or the parse of
\* the index
UploadStepFailed ==
    \/ \E i \in PrimaryPuts : ~trace[i].ok
    \/ lastLoad.called /\ (lastLoad.getFailed \/ ~lastLoad.ok)

\* C13: an upload of which any step failed returns an error; the index is
\* written only after every object write of the call succeeded; the objects
\* the call wrote stay in the store whatever happens to the later steps.
C13_UploadFailurePolicy ==
    op.kind = "upload" =>
        /\ (pc = "done" /\ UploadStepFailed) => result.status = "error"
        /\ \A i \in IndexPuts :
              /\ \A j \in ObjectPuts : j < i /\ trace[j].ok
              /\ {trace[j].key : j \in ObjectPuts} = Range(ExpectedPuts)
        /\ \A j \in ObjectPuts : trace[j].ok => StoreExists(primary, trace[j].key)

\* the keys a delete attempts, in the order of the trace
DeletedKeys == [i \in 1..Cardinality(ObjectDeletes) |-> trace[i + 1].key]

\* the key sequences the running delete may have to attempt
ExpectedDeletes ==
    IF op.version # NoVersion THEN {VersionKeys(op.name, op.version)}
    ELSE IF HasSkill(lastLoad.index, op.name)
    THEN {AllVersionKeys(op.name, o) :
            o \in Orders(DOMAIN find_skill(lastLoad.index, op.name).versions)}
    ELSE {<< >>}

MappingGone ==
    IF op.version # NoVersion
    THEN ~HasMapping(PersistedIndex(primary), op.name, op.version)
    ELSE ~HasSkill(PersistedIndex(primary), op.name)

\* C14: a delete whose index load and index save succeed reports success
\* whatever each object deletion answered; it saves the index once, after
\* it attempted every object deletion, and the saved index is without the
\* deleted mapping(s) even when deletions failed.
C14_DeleteIgnoresObjectFailures ==
    op.kind = "delete" =>
        /\ Cardinality(IndexPuts) <= 1
        /\ (pc = "done" /\ lastLoad.ok) => IndexPuts # {}
        /\ \A i \in IndexPuts :
              /\ \A j \in ObjectDeletes : j < i
              /\ DeletedKeys \in ExpectedDeletes
              /\ trace[i].ok =>
                    /\ MappingGone
                    /\ pc = "done" => result.status = "ok"
              /\ ~trace[i].ok => (pc = "done" /\ result.status = "error")

\* C14 witness: a delete of a recorded version returned success although
\* the deletion of its payload failed; the payload is still stored and the
\* index no longer maps the version
C14_Witness ==
    /\ DeleteDone /\ result.status = "ok" /\ op.version # NoVersion
    /\ HasMapping(lastLoad.index, op.name, op.version)
    /\ \E j \in ObjectDeletes :
          trace[j].key = SkillKey(op.name, op.version) /\ ~trace[j].ok
    /\ StoreExists(primary, SkillKey(op.name, op.version))
    /\ ~HasMapping(PersistedIndex(primary), op.name, op.version)

\* no store call of the running delete failed
DeleteFailureFree ==
    /\ ~lastLoad.getFailed
    /\ \A i \in DOMAIN trace : trace[i].call \in {"put", "delete", "list"} => trace[i].ok

\* C16: after a failure-free delete(name, None) the persisted index has no
\* entry for name, and for every version that was recorded for name none of
\* its payload, changelog and source archive keys is left in the primary
\* store.
C16_DeleteAllRemovesEverything ==
    (DeleteDone /\ op.version = NoVersion /\ result.status = "ok" /\ DeleteFailureFree) =>
        /\ ~HasSkill(PersistedIndex(primary), op.name)
        /\ HasSkill(lastLoad.index, op.name) =>
              \A v \in DOMAIN find_skill(lastLoad.index, op.name).versions :
                 /\ ~StoreExists(primary, SkillKey(op.name, v))
                 /\ ~StoreExists(primary, ChangelogKey(op.name, v))
                 /\ ~StoreExists(primary, SourceKey(op.name, v))

\* C16 witness: two versions with all three objects each were recorded and
\* stored when the delete began, and nothing of them is left
C16_Witness ==
    /\ DeleteDone /\ op.version = NoVersion /\ result.status = "ok" /\ DeleteFailureFree
    /\ HasSkill(lastLoad.index, op.name)
    /\ DOMAIN find_skill(lastLoad.index, op.name).versions = Versions
    /\ \A v \in Versions : Range(VersionKeys(op.name, v)) \subseteq lastLoad.keys
    /\ \A v \in Versions : Range(VersionKeys(op.name, v)) \cap DOMAIN primary = {}
    /\ ~HasSkill(PersistedIndex(primary), op.name)

\* the (name, version) pairs an index maps
Mappings(ix) ==
    UNION {{<<ix[i].name, v>> : v \in DOMAIN ix[i].versions} : i \in DOMAIN ix}

\* the key an index maps the pair q to
KeyOf(ix, q) == find_skill(ix, q[1]).versions[q[2]]

\* C15: a successful delete(name, Some(v)) takes the mapping (name, v) out
\* of the persisted index and leaves every other mapping as it was, with
\* its payload object still stored under the mapped key.
C15_DeleteVersionLeavesOthers ==
    (DeleteDone /\ op.version # NoVersion /\ result.status = "ok") =>
        /\ Mappings(PersistedIndex(primary))
              = Mappings(lastLoad.index) \ {<<op.name, op.version>>}
        /\ \A q \in Mappings(PersistedIndex(primary)) :
              /\ KeyOf(PersistedIndex(primary), q) = KeyOf(lastLoad.index, q)
              /\ StoreExists(primary, KeyOf(lastLoad.index, q))

\* the calls the running operation made that delete from the cache
CacheDeletes == {i \in DOMAIN trace : trace[i].store = "cache" /\ trace[i].call = "delete"}

\* C17: after a successful delete through a Repository with a cache (whose
\* calls do not fail) the cache holds no payload of the deleted version,
\* or no key below skills/<name>/ after a delete of all versions, and the
\* delete removed no cached entry of another skill.
C17_DeleteClearsCacheOfThatSkillOnly ==
    (op.kind = "delete" /\ hasCache) =>
        /\ (pc = "done" /\ result.status = "ok" /\ op.version # NoVersion)
              => ~StoreExists(cache, SkillKey(op.name, op.version))
        /\ (pc = "done" /\ result.status = "ok" /\ op.version = NoVersion)
              => \A k \in DOMAIN cache : ~StartsWith(k, SkillPrefix(op.name))
        /\ \A i \in CacheDeletes : StartsWith(trace[i].key, SkillPrefix(op.name))

(***************************************************************************)
(* Two writers on one primary store                                        *)
(***************************************************************************)
\* C18: nothing orders the index load and the index save of two writers:
\* each successful save replaces the stored index by the index its writer
\* computed from its own earlier load, whatever the other writer saved
\* since then (last save wins); so an interleaving exists after which both
\* calls have returned success and the stored index misses one writer's
\* change.
C18_LastSaveWins ==
    [][ /\ (other.pc \in {"up_save", "del_save"} /\ other'.pc = "done"
              /\ other'.status = "ok")
              => PersistedIndex(primary') = other'.index
        /\ (pc \in {"up_save", "del_save"} /\ pc' # pc /\ result'.status # "error")
              => PersistedIndex(primary') = index' ]_vars

\* C18 witness: both uploads have returned success, and the stored index
\* holds the skill of the writer that saved last and not the other one's
C18_Witness ==
    /\ pc = "done" /\ op.kind = "upload" /\ result.status = "ok"
    /\ other.pc = "done" /\ other.kind = "upload" /\ other.status = "ok"
    /\ op.name # other.name
    /\ HasSkill(PersistedIndex(primary), other.name)
    /\ ~HasSkill(PersistedIndex(primary), op.name)

(***************************************************************************)
(* Properties of add_or_update_skill and of the save/load round trip       *)
(***************************************************************************)
EntriesNamed(ix, n) == {i \in DOMAIN ix : ix[i].name = n}

\* what a call upsert(n, d, u, v, k) that took idx to idx' must have done
UpsertPost(n, d, u, v, k) ==
    /\ iret'.ret <=> (EntriesNamed(idx, n) # {})
    /\ Len(idx') = Len(idx) + (IF EntriesNamed(idx, n) # {} THEN 0 ELSE 1)
    /\ Cardinality(EntriesNamed(idx', n)) = 1
    /\ v \in DOMAIN find_skill(idx', n).versions
    /\ find_skill(idx', n).versions[v] = k
    /\ find_skill(idx', n).description = d
    /\ find_skill(idx', n).llms_txt_url = u
    /\ DOMAIN find_skill(idx', n).versions =
          (IF EntriesNamed(idx, n) # {} THEN DOMAIN find_skill(idx, n).versions ELSE {})
          \cup {v}

\* C19: after upsert(name, description, url, version, key) the entry of
\* name maps version to key and carries the description and url given; the
\* call returns true exactly when an entry of that name existed; an upsert
\* of an already mapped (name, version) with another key replaces the key
\* and adds neither an entry nor a mapping.
C19_UpsertSetsMapping ==
    [][iret'.call = "upsert" =>
          UpsertPost(iret'.name, iret'.description, iret'.url, iret'.version,
                     iret'.key)]_vars

\* C19 witness: an upsert gave an already mapped version of an existing
\* skill a different key, next to another skill's entry
C19_Witness ==
    /\ iret.call = "upsert" /\ iret.ret
    /\ iret.replaced
    /\ find_skill(idx, iret.name).versions[iret.version] = iret.key
    /\ Len(idx) = 2

\* C20: save_index followed by load_index on the same store returns an
\* index equal to the one saved: the same entries in the same order with
\* the same descriptions, urls and version maps.
C20_SaveLoadRoundTrip ==
    [][SaveLoad => (iret'.ret /\ idx' = idx)]_vars

\* C20 witness: a round trip returned an index of two entries, one of them
\* with two versions
C20_Witness ==
    /\ iret.call = "save_load" /\ iret.ret
    /\ Len(idx) = 2
    /\ \E i \in DOMAIN idx : DOMAIN idx[i].versions = Versions

(***************************************************************************)
(* Key derivation                                                          *)
(***************************************************************************)
\* the payload keys the running operation derived: the key of the first
\* object put of an upload, the key of the first object deletion of a
\* delete of one version
DerivedKeys ==
    {trace[i].key : i \in {j \in ObjectPuts \cup ObjectDeletes : j = 1}}

\* C21: the payload key derived for (name, version) is
\* skills/<name>/<version>/<name>.skill on every call, and two distinct
\* (name, version) pairs never derive the same payload key: the persisted
\* index never maps two distinct pairs to one key.
C21_KeyDerivationInjective ==
    /\ (op.kind = "upload" \/ (op.kind = "delete" /\ op.version # NoVersion)) =>
          \A k \in DerivedKeys :
              k = S_SKILLS \o op.name \o SLASH \o op.version \o SLASH
                    \o op.name \o S_DOT_SKILL
    /\ \A q1, q2 \in Mappings(PersistedIndex(primary)) :
          q1 # q2 => KeyOf(PersistedIndex(primary), q1) # KeyOf(PersistedIndex(primary), q2)

(***************************************************************************)
(* Download of the latest version                                          *)
(***************************************************************************)
\* the running download was served by the cache
ServedFromCache ==
    \E i \in DOMAIN trace :
        trace[i].store = "cache" /\ trace[i].call = "get" /\ trace[i].ok

\* C22: download(name, None) resolves the version to the latest version of
\* name in the index it loaded at the start: a recorded version whose
\* (major, minor, patch) tuple no other recorded version exceeds.  It
\* returns the bytes stored for exactly that version: the cached object
\* under the key of (name, resolved version) on a cache hit, otherwise the
\* primary object under the key the loaded index maps that version to; and
\* without a cache these are the bytes of the latest upload of that version.
\* It fails with not-found when the loaded index has no entry for name.
C22_DownloadLatest ==
    (DownloadDone /\ op.version = NoVersion /\ lastLoad.ok) =>
        /\ ~HasSkill(lastLoad.index, op.name) => result.status = "notfound"
        /\ HasSkill(lastLoad.index, op.name) =>
              LET vs == DOMAIN find_skill(lastLoad.index, op.name).versions
                  q == <<op.name, result.version>>
              IN /\ result.status # "notfound"
                 /\ result.version \in vs
                 /\ \A w \in vs :
                       ~TupleLess(PositionalTuple(result.version), PositionalTuple(w))
                 /\ result.status = "ok" =>
                       /\ result.data =
                             IF ServedFromCache THEN cache[SkillKey(op.name, result.version)]
                             ELSE primary[KeyOf(lastLoad.index, q)]
                       /\ ~hasCache => result.data = lastUp[q]

\* C22 witness: two versions with different payloads are recorded and the
\* download without a version returned the payload of the greater one
C22_Witness ==
    /\ DownloadDone /\ op.version = NoVersion /\ result.status = "ok"
    /\ HasSkill(lastLoad.index, op.name)
    /\ DOMAIN find_skill(lastLoad.index, op.name).versions = Versions
    /\ result.version = <<"2",".","0",".","0">>
    /\ result.data = Blob("p2")
    /\ primary[SkillKey(op.name, <<"1",".","0",".","0">>)] = Blob("p1")

(***************************************************************************)
(* Properties of the object store backends                                 *)
(***************************************************************************)
\* C23: both backends behave as a flat map from keys to bytes: put and
\* delete succeed whatever keys are stored, get(k) returns the bytes of the
\* most recent put(k) that no delete(k) followed and fails otherwise, and
\* exists(k) is true exactly when get(k) would succeed.
C23_FlatKeyValueMap ==
    /\ sret.call \in {"put", "delete"} => (sret.fsOk /\ sret.memOk)
    /\ \A k \in StoreKeys :
          /\ LocalGetObject(fs, k).ok <=> k \in DOMAIN want
          /\ StoreExists(mem, k) <=> k \in DOMAIN want
          /\ k \in DOMAIN want =>
                (LocalGetObject(fs, k).data = want[k] /\ mem[k] = want[k])
          /\ LocalObjectExists(fs, k) <=> LocalGetObject(fs, k).ok
    /\ sret.call = "get" =>
          /\ sret.fsOk <=> sret.key \in DOMAIN want
          /\ sret.memOk <=> sret.key \in DOMAIN want
          /\ sret.key \in DOMAIN want =>
                (sret.fsData = want[sret.key] /\ sret.memData = want[sret.key])
    /\ sret.call = "exists" =>
          (sret.fsExists <=> sret.key \in DOMAIN want)
          /\ (sret.memExists <=> sret.key \in DOMAIN want)

\* C24: list(prefix) returns exactly the stored keys whose string value
\* starts with prefix, on the filesystem backend and on the in-memory
\* backend alike, whenever the two hold the same keys.
C24_ListIsPrefixFilter ==
    (sret.call = "list" /\ DOMAIN fs.files = DOMAIN mem) =>
        /\ sret.memKeys = {k \in DOMAIN mem : StartsWith(k, sret.key)}
        /\ sret.fsKeys = {k \in DOMAIN fs.files : StartsWith(k, sret.key)}
        /\ sret.fsKeys = sret.memKeys

\* a directory below the root that holds neither a file nor a directory
EmptyDirectories == {d \in fs.dirs \ {ROOT} : DirEmpty(fs.files, fs.dirs, d)}

\* C25: on the filesystem backend a delete of an existing key removes that
\* file and no other, and removes exactly the directories above it that
\* have become empty, walking upwards to the first directory that still
\* holds something; the root is never removed; so after any sequence of
\* put and delete calls no empty directory remains below the root.
C25_DeleteCleansEmptyParents ==
    /\ [](ROOT \in fs.dirs /\ EmptyDirectories = {})
    /\ [][(sret'.call = "delete" /\ sret'.key \in DOMAIN fs.files) =>
            /\ sret'.fsOk
            /\ fs'.files = [k \in (DOMAIN fs.files) \ {sret'.key} |-> fs.files[k]]
            /\ fs.dirs \ fs'.dirs \subseteq PathAncestors(sret'.key) \ {ROOT}
            /\ fs'.dirs = {d \in fs.dirs :
                             d = ROOT \/ \E k \in DOMAIN fs'.files : d \in PathAncestors(k)}
          ]_vars

\* C25 witness: the delete of a/c/d removed the directory a/c and stopped
\* at the directory a, which still holds the file a/b
C25_Witness ==
    /\ sret.call = "delete" /\ sret.fsOk
    /\ sret.key = <<"a","/","c","/","d">>
    /\ fs.dirs = {ROOT, <<"a">>}
    /\ DOMAIN fs.files = {<<"a","/","b">>}

(***************************************************************************)
(* Properties of RepositoryConfig                                          *)
(***************************************************************************)
\* the configuration of the last call has a local section whose cache flag
\* is true, and a bucket name
MarkedCacheWithBucket ==
    /\ cret.cfg.local # NoLocal
    /\ cret.cfg.local.cache
    /\ cret.cfg.bucket_name # NoBucket

\* C26: has_remote() is true exactly when bucket_name is set;
\* local_is_cache() is true exactly when a local section exists, its cache
\* flag is true and has_remote() holds; a Repository built by from_config
\* has a cache layer exactly when local_is_cache() is true, so a
\* configuration without a bucket never yields a cache layer.
C26_CacheOnlyWithRemote ==
    /\ cret.call = "has_remote" => (cret.ret <=> cret.cfg.bucket_name # NoBucket)
    /\ cret.call = "local_is_cache" => (cret.ret <=> MarkedCacheWithBucket)
    /\ cret.call = "from_config" =>
          /\ cret.ok => (cret.cache <=> MarkedCacheWithBucket)
          /\ cret.cache => cret.ok
          /\ cret.cfg.bucket_name = NoBucket => ~cret.cache

\* C26 witness: a configuration with a local section marked as cache and no
\* bucket is not a cache
C26_Witness ==
    /\ cret.call = "local_is_cache"
    /\ cret.cfg.bucket_name = NoBucket
    /\ cret.cfg.local.present /\ cret.cfg.local.cache
    /\ ~cret.ret

(***************************************************************************)
(* Download through the cache                                              *)
(***************************************************************************)
\* the successful reads of a payload from the primary store, and the cache
\* writes, of the running operation
PrimaryPayloadReads ==
    {i \in DOMAIN trace : /\ trace[i].store = "primary" /\ trace[i].call = "get"
                          /\ trace[i].key # INDEX_KEY /\ trace[i].ok}
CachePuts == {i \in DOMAIN trace : trace[i].store = "cache" /\ trace[i].call = "put"}

\* C27: a download through a Repository with a cache that read the payload
\* from the primary store writes those bytes into the cache under
\* skills/<name>/<resolved version>/<name>.skill, once and after the read;
\* whether or not that write succeeds, the download succeeds and returns
\* the bytes read from the primary store.
C27_CacheWriteIsBestEffort ==
    (DownloadDone /\ hasCache /\ PrimaryPayloadReads # {}) =>
        /\ result.status = "ok"
        /\ \A i \in PrimaryPayloadReads : result.data = primary[trace[i].key]
        /\ Cardinality(CachePuts) = 1
        /\ \A j \in CachePuts :
              /\ \A i \in PrimaryPayloadReads : i < j
              /\ trace[j].key = S_SKILLS \o op.name \o SLASH \o result.version
                                   \o SLASH \o op.name \o S_DOT_SKILL
              /\ trace[j].ok =>
                    (StoreExists(cache, trace[j].key) /\ cache[trace[j].key] = result.data)

\* C27 witness: the cache write of a download failed, the download returned
\* the payload all the same, and the cache does not hold it
C27_Witness ==
    /\ DownloadDone /\ hasCache /\ PrimaryPayloadReads # {}
    /\ \E j \in CachePuts : ~trace[j].ok
    /\ result.status = "ok" /\ result.data = Blob("p1")
    /\ ~StoreExists(cache, SkillKey(op.name, result.version))

(***************************************************************************)
(* Order of the store calls of a write operation                           *)
(***************************************************************************)
\* the reads of the index key by the running operation
IndexLoads ==
    {i \in DOMAIN trace : /\ trace[i].store = "primary" /\ trace[i].call = "get"
                          /\ trace[i].key = INDEX_KEY}

\* C28: an upload and a delete make their store calls in the order index
\* load, object mutations, index save: every object put or delete on the
\* primary store comes after the index load and before the index save, and
\* the index save is the last write of the call to the primary store.
C28_LoadMutateSave ==
    op.kind \in {"upload", "delete"} =>
        /\ \A i \in ObjectPuts \cup ObjectDeletes :
              /\ \E l \in IndexLoads : l < i
              /\ \A w \in IndexPuts : i < w
        /\ \A w \in IndexPuts : \A i \in PrimaryPuts \cup ObjectDeletes : i <= w

(***************************************************************************)
(* Uniqueness of the names in an index                                     *)
(***************************************************************************)
UniqueNames(ix) == \A i, j \in DOMAIN ix : ix[i].name = ix[j].name => i = j

\* C29: starting from the empty index, after any sequence of upsert, remove
\* and remove_version calls, and after any sequence of upload and delete
\* operations of a Repository, no index (the one called directly, the one
\* an operation works on, the one persisted in the primary store) contains
\* two entries with the same name.
C29_UniqueNames ==
    /\ UniqueNames(idx)
    /\ UniqueNames(index)
    /\ UniqueNames(other.index)
    /\ UniqueNames(PersistedIndex(primary))

\* C29 witness: an upsert of a name that had an entry, into an index of two
\* entries, left one entry for each name
C29_Witness ==
    /\ iret.call = "upsert" /\ iret.ret
    /\ Len(idx) = 2
    /\ \A n \in Names : Cardinality(EntriesNamed(idx, n)) = 1
    /\ DOMAIN find_skill(idx, iret.name).versions = Versions

(***************************************************************************)
(* Frame of an upload                                                      *)
(***************************************************************************)
\* C30: when upload(name, v, ..) returns success, the persisted index still
\* holds every mapping (name', v') -> key it held before the call, for all
\* (name', v') other than (name, v), whatever the store calls of the upload
\* answered.
C30_UploadKeepsOtherMappings ==
    [][(pc = "up_save" /\ pc' = "done" /\ result'.status = "ok") =>
          \A q \in Mappings(PersistedIndex(primary)) \ {<<op.name, op.version>>} :
              /\ q \in Mappings(PersistedIndex(primary'))
              /\ KeyOf(PersistedIndex(primary'), q) = KeyOf(PersistedIndex(primary), q)
       ]_vars

====
